---- MODULE Spec2Model ----
(***************************************************************************)
(* The query-to-context pipeline of the Strava coaching bot: the per-user  *)
(* document store (ChromaManager), the query interpreter node and the      *)
(* document retriever node of the LangGraph workflow.                      *)
(*                                                                         *)
(* Encoding of Python values:                                              *)
(*   - an optional value (a key that is absent from a metadata dict, or a  *)
(*     JSON null of the query) is None == <<>>, a present value v is       *)
(*     Some(v) == <<v>>;                                                   *)
(*   - a run name is a sequence of one-character strings;                  *)
(*   - a date string is a sequence of naturals, one per fixed-width,       *)
(*     zero-padded block of characters: <<d>> is "YYYY-MM-DD", <<d, t>> is *)
(*     "YYYY-MM-DD HH:MM:SS", <<>> is "".  Comparing two such sequences    *)
(*     element by element, a proper prefix being smaller, is Python's      *)
(*     comparison of the strings they stand for.                           *)
(***************************************************************************)
EXTENDS Integers, Sequences, FiniteSets, TLC

VARIABLES
    store,          \* the user's Chroma collection, in enumeration order
    user_message,   \* WorkflowState["user_message"]
    query,          \* WorkflowState["query"]
    pool,           \* retrieve_runs: docs = retriever.invoke("")
    primary_docs,   \* document_retriever_agent: retrieved_docs before the fallback test
    fallback,       \* document_retriever_agent: get_latest_runs(5) was called
    retrieved_docs, \* WorkflowState["retrieved_docs"]
    context,        \* WorkflowState["context"], by its layout
    error,          \* WorkflowState["error"]
    pc,             \* the workflow node that runs next
    \* the text context and the data frame parsed from it
    ctx_docs,       \* docs_to_context: docs
    notice,         \* document_retriever_agent: the docs are the fallback's
    ctx,            \* the context string, line by line
    cursor,         \* context_to_dataframe: the line the loop is at
    current_run,    \* context_to_dataframe: current_run
    rows,           \* context_to_dataframe: rows
    cpc,            \* the step of the text round trip that runs next
    \* one call of the generative model
    llm_call,       \* the LLMClient method that makes the call
    llm_replies,    \* what self.llm.invoke answers, attempt by attempt
    llm_result,     \* how the method ended, None while it has not
    \* the requests of one user: sync, question, full reset
    chroma,         \* the documents under new_bot/chroma_stores/<user_id>
    cwd_is_app,     \* the working directory of the process is new_bot
    upstream,       \* the activities of the user's Strava account
    requests,       \* the requests handled so far
    request,        \* WorkflowState["user_message"] of the request in progress
    spc,            \* the step of the request that runs next
    page,           \* fetch_all_runs: page
    act,            \* fetch_all_runs: the place of act in activities
    attempts,       \* HTTP requests sent by the Strava call in progress
    streams,        \* fetch_all_runs: streams
    existing_runs,  \* strava_agent: existing_runs
    dfs,            \* fetch_all_runs: dfs, then WorkflowState["strava_data"]
    json_list,      \* WorkflowState["json_list"]
    documents,      \* WorkflowState["documents"]
    sync_error,     \* WorkflowState["error"] of the request in progress
    \* the per-kilometre table of one activity
    dist_stream,    \* km_wise_data: streams["distance"]["data"]
    km_rows,        \* km_wise_data: the KM column of the frame it returns
    kpc,            \* the step of the table's computation that runs next
    \* the persisted data of the bot's users
    chat_contexts,  \* chat_contexts/<user_id>_context.json, user by user
    env_file,       \* strava_refresh_token of each USERS entry of the .env file
    USERS,          \* config.USERS of the running process, read at import
    issued,         \* the refresh token Strava last issued to each user
    user_stores,    \* the number of documents under chroma_stores/<user_id>
    clock,          \* the requests handled so far; datetime.now() of the next one
    last_op,        \* the request handled last
    \* one update handled by the bot, from its handler through the workflow
    incoming,       \* the update: sender, text, what is stored for the sender
    node,           \* the handler step or workflow node that runs next
    wstate,         \* WorkflowState of the invocation
    ran,            \* the workflow nodes run in the invocation, in order
    bot_reply,      \* the final reply of the handler, "" while there is none
    effects         \* what the request did: invoked, model, fetched, stored

retrievalVars == <<store, user_message, query, pool, primary_docs, fallback,
                   retrieved_docs, context, error, pc>>

contextVars == <<ctx_docs, notice, ctx, cursor, current_run, rows, cpc>>

llmVars == <<llm_call, llm_replies, llm_result>>

syncVars == <<chroma, cwd_is_app, upstream, requests, request, spc, page, act,
              attempts, streams, existing_runs, dfs, json_list, documents,
              sync_error>>

splitVars == <<dist_stream, km_rows, kpc>>

userVars == <<chat_contexts, env_file, USERS, issued, user_stores, clock,
              last_op>>

botVars == <<incoming, node, wstate, ran, bot_reply, effects>>

vars == <<retrievalVars, contextVars, llmVars, syncVars, splitVars, userVars,
          botVars>>

----------------------------------------------------------------------------
(* Bounds of the model and constants of the program *)

MaxStoreLen == 2
MaxFields == 3

TopK == 20
PoolFactor == 3
LatestN == 5
MissingHrLow == 0
MissingHrHigh == 9999

----------------------------------------------------------------------------
(* Python values *)

None == <<>>
Some(v) == <<v>>

Min(a, b) == IF a < b THEN a ELSE b

Take(s, n) == SubSeq(s, 1, Min(n, Len(s)))

\* bool(x) of an optional number, an optional string/date, an optional list
TruthyNum(o) == o # None /\ o[1] # 0
TruthySeq(o) == o # None /\ o[1] # <<>>
TruthyStr(o) == o # None /\ o[1] # ""

\* str.__lt__ on the block encoding of strings
RECURSIVE StrLess(_, _)
StrLess(a, b) ==
    IF b = <<>> THEN FALSE
    ELSE IF a = <<>> THEN TRUE
    ELSE IF a[1] # b[1] THEN a[1] < b[1]
    ELSE StrLess(Tail(a), Tail(b))

\* str.lower() on one character and on a string
LowerChar(c) ==
    CASE c = "T" -> "t"
      [] c = "E" -> "e"
      [] c = "X" -> "x"
      [] OTHER -> c

Lower(s) == [i \in 1..Len(s) |-> LowerChar(s[i])]

\* needle in hay
Contains(hay, needle) ==
    \E i \in 0..(Len(hay) - Len(needle)) :
        SubSeq(hay, i + 1, i + Len(needle)) = needle

----------------------------------------------------------------------------
(* Each specification below runs one part of the program; the variables of *)
(* the other parts stay at these values.                                   *)

RetrievalIdle ==
    /\ store = <<>>
    /\ user_message = ""
    /\ query = None
    /\ pool = <<>>
    /\ primary_docs = <<>>
    /\ fallback = FALSE
    /\ retrieved_docs = <<>>
    /\ context = ""
    /\ error = ""
    /\ pc = "idle"

ContextIdle ==
    /\ ctx_docs = <<>>
    /\ notice = FALSE
    /\ ctx = <<>>
    /\ cursor = 0
    /\ current_run = None
    /\ rows = <<>>
    /\ cpc = "idle"

LlmIdle ==
    /\ llm_call = ""
    /\ llm_replies = <<>>
    /\ llm_result = None

SyncIdle ==
    /\ chroma = <<>>
    /\ cwd_is_app = TRUE
    /\ upstream = <<>>
    /\ requests = 0
    /\ request = ""
    /\ spc = "off"
    /\ page = 1
    /\ act = 1
    /\ attempts = 0
    /\ streams = None
    /\ existing_runs = <<>>
    /\ dfs = <<>>
    /\ json_list = <<>>
    /\ documents = <<>>
    /\ sync_error = ""

SplitIdle ==
    /\ dist_stream = <<>>
    /\ km_rows = <<>>
    /\ kpc = "idle"

UserIdle ==
    /\ chat_contexts = <<>>
    /\ env_file = <<>>
    /\ USERS = <<>>
    /\ issued = <<>>
    /\ user_stores = <<>>
    /\ clock = 0
    /\ last_op = <<>>

BotIdle ==
    /\ incoming = <<>>
    /\ node = "off"
    /\ wstate = <<>>
    /\ ran = <<>>
    /\ bot_reply = ""
    /\ effects = <<>>

----------------------------------------------------------------------------
(* Stored documents: the metadata create_documents writes.  Chroma keeps no *)
(* null metadata value, so a field the activity lacked is an absent key.    *)

Meta(name, type, avg_hr, distance, date) ==
    [name |-> name, type |-> type, avg_hr |-> avg_hr,
     distance |-> distance, date |-> date]

MetaSet ==
    { Meta(Some(<<"T", "e">>),      Some("Tempo"), Some(160), Some(10), Some(<<2, 1>>)),
      Meta(Some(<<"t", "e", "2">>), Some("tempo"), None,      Some(3),  Some(<<2, 1>>)),
      Meta(Some(<<"e">>),           Some("Easy"),  Some(130), Some(10), Some(<<1, 1>>)),
      Meta(None,                    Some("Tempo"), Some(130), None,     None),
      Meta(Some(<<"E", "2">>),      Some("Tempo"), Some(160), Some(3),  Some(<<3>>)) }

\* a collection: every document has its own id, here its place in the enumeration
MkStore(ms) ==
    [i \in 1..Len(ms) |->
        [id |-> i, name |-> ms[i].name, type |-> ms[i].type,
         avg_hr |-> ms[i].avg_hr, distance |-> ms[i].distance,
         date |-> ms[i].date]]

SmallStores ==
    { MkStore(ms) : ms \in UNION { [1..n -> MetaSet] : n \in 0..MaxStoreLen } }

\* the metadata of the i-th run of a long training history
BigMeta(i) ==
    Meta(Some(<<"T", "e">>),
         IF i % 2 = 0 THEN Some("Tempo") ELSE Some("Easy"),
         IF i % 3 = 0 THEN None ELSE Some(120 + 20 * (i % 3)),
         Some(3 + 7 * (i % 2)),
         Some(<<i, 1>>))

\* histories one document longer than the fallback size, the result cap and
\* the candidate pool
BigSizes == { LatestN + 1, TopK + 1, PoolFactor * TopK + 1 }

BigStores == { MkStore([i \in 1..n |-> BigMeta(i)]) : n \in BigSizes }

Stores == SmallStores \cup BigStores

\* The order in which the similarity search ranks the stored documents for
\* the empty query text: any order for a small collection, the enumeration
\* order or its reverse for a long one.
Orders(n) ==
    { f \in [1..n -> 1..n] : \A i, j \in 1..n : i # j => f[i] # f[j] }

Rankings(n) ==
    IF n <= MaxStoreLen
    THEN Orders(n)
    ELSE { [i \in 1..n |-> i], [i \in 1..n |-> n + 1 - i] }

----------------------------------------------------------------------------
(* Structured queries: the JSON object of the interpreter prompt *)

Query(type, min_avg_hr, max_avg_hr, start_date, end_date, last_n_runs, distance_km, run_names) ==
    [type |-> type, min_avg_hr |-> min_avg_hr, max_avg_hr |-> max_avg_hr,
     start_date |-> start_date, end_date |-> end_date,
     last_n_runs |-> last_n_runs, distance_km |-> distance_km,
     run_names |-> run_names]

\* the initial state's query {}: every .get() gives None
EmptyQuery == Query(None, None, None, None, None, None, None, None)

\* query_interpreter_agent's query for the sync message
SyncQuery == Query(Some("sync"), None, None, None, None, None, None, None)

RunNameLists ==
    { <<>>,
      << <<"t", "E">> >>,
      << <<"x">>, <<"e", "2">> >> }

Populated(q) ==
    Cardinality({ f \in DOMAIN q : q[f] # None })

Queries ==
    { q \in [type : {None, Some("Tempo")},
             min_avg_hr : {None, Some(150)},
             max_avg_hr : {None, Some(0), Some(140), Some(MissingHrHigh)},
             start_date : {None, Some(<<2>>)},
             end_date : {None, Some(<<2>>)},
             last_n_runs : {None, Some(2)},
             distance_km : {None, Some(5)},
             run_names : {None} \cup { Some(l) : l \in RunNameLists }] :
        Populated(q) <= MaxFields }

----------------------------------------------------------------------------
(* list.sort(key=..., reverse=True): stable, greatest key first *)

\* the indices 1..n of keys in sorted order: index n goes behind every index
\* before it whose key is not smaller
RECURSIVE SortedIndices(_, _)
SortedIndices(keys, n) ==
    IF n = 0
    THEN <<>>
    ELSE LET prev == SortedIndices(keys, n - 1)
             ahead == Cardinality({ p \in 1..(n - 1) :
                                      ~StrLess(keys[prev[p]], keys[n]) })
         IN  SubSeq(prev, 1, ahead) \o <<n>> \o SubSeq(prev, ahead + 1, n - 1)

SortDesc(docs, keys) ==
    LET order == SortedIndices(keys, Len(docs))
    IN  [p \in 1..Len(docs) |-> docs[order[p]]]

----------------------------------------------------------------------------
(* ChromaManager *)

\* results of a method that may raise
Returned(docs) == [raised |-> FALSE, docs |-> docs]
Raised == [raised |-> TRUE, docs |-> <<>>]

\* mutant of AnyNameIn: the names are compared without lower()
AnyNameIn_CaseSensitive(run_names, run_name) ==
    \E k \in 1..Len(run_names) : Contains(run_name, run_names[k])

\* any(name.lower() in run_name.lower() for name in run_names)
AnyNameIn(run_names, run_name) ==
    \E k \in 1..Len(run_names) : Contains(Lower(run_name), Lower(run_names[k]))

\* meta.get("name", "")
NameOf(doc) == IF doc.name = None THEN <<>> ELSE doc.name[1]

\* meta.get("date", "")
DateOf(doc) == IF doc.date = None THEN <<>> ELSE doc.date[1]

\* meta.get("avg_hr", default)
HrOf(doc, default) == IF doc.avg_hr = None THEN default ELSE doc.avg_hr[1]

\* mutant of SameType: the types are compared without regard to case
LowerType(t) ==
    IF t = Some("Tempo") THEN Some("tempo")
    ELSE IF t = Some("Easy") THEN Some("easy")
    ELSE t

SameType_IgnoreCase(doc, q) == LowerType(doc.type) = LowerType(q.type)

\* the equality of a document's type with the query's, as the native filter
\* {"type": query["type"]} and the first test of the post-filter loop decide it
SameType(doc, q) == doc.type = q.type

\* the first test of the post-filter loop
TypeMismatch(doc, q) == TruthyStr(q.type) /\ ~SameType(doc, q)

\* the heart-rate tests of the post-filter loop
BelowMinHr(doc, q) ==
    TruthyNum(q.min_avg_hr) /\ HrOf(doc, MissingHrLow) < q.min_avg_hr[1]

\* mutant of AboveMaxHr: a missing avg_hr defaults to 0 here as well
AboveMaxHr_MissingAsZero(doc, q) ==
    TruthyNum(q.max_avg_hr) /\ HrOf(doc, MissingHrLow) > q.max_avg_hr[1]

AboveMaxHr(doc, q) ==
    TruthyNum(q.max_avg_hr) /\ HrOf(doc, MissingHrHigh) > q.max_avg_hr[1]

\* the date tests of the post-filter loop, on a document that has a date
BeforeStart(doc, q) ==
    TruthySeq(q.start_date) /\ StrLess(doc.date[1], q.start_date[1])

AfterEnd(doc, q) ==
    TruthySeq(q.end_date) /\ StrLess(q.end_date[1], doc.date[1])

\* One pass of the post-filter loop body over a candidate: "skip" is a
\* continue, "keep" the append, "raise" the TypeError of comparing None with
\* a number or a string.
PostFilter(doc, q) ==
    IF TypeMismatch(doc, q) THEN "skip"
    ELSE IF BelowMinHr(doc, q) THEN "skip"
    ELSE IF AboveMaxHr(doc, q) THEN "skip"
    ELSE IF TruthyNum(q.distance_km) /\ doc.distance = None THEN "raise"
    ELSE IF TruthyNum(q.distance_km) /\ doc.distance[1] < q.distance_km[1] THEN "skip"
    ELSE IF TruthySeq(q.start_date) /\ doc.date = None THEN "raise"
    ELSE IF BeforeStart(doc, q) THEN "skip"
    ELSE IF TruthySeq(q.end_date) /\ doc.date = None THEN "raise"
    ELSE IF AfterEnd(doc, q) THEN "skip"
    ELSE IF TruthySeq(q.run_names) /\ ~AnyNameIn(q.run_names[1], NameOf(doc)) THEN "skip"
    ELSE "keep"

\* as_retriever(search_kwargs={"filter": primary_filter, "k": top_k * 3}).invoke(""):
\* the k best-ranked documents among those the native filter admits
CandidatePool(docs, rank, q, top_k) ==
    LET ranked == [i \in 1..Len(docs) |-> docs[rank[i]]]
        IsAdmitted(d) == TruthyStr(q.type) => SameType(d, q)
    IN  Take(SelectSeq(ranked, IsAdmitted), PoolFactor * top_k)

\* step 5 of retrieve_runs
LastNRuns(filtered_docs, q) ==
    IF TruthyNum(q.last_n_runs)
    THEN Take(SortDesc(filtered_docs,
                       [i \in 1..Len(filtered_docs) |-> DateOf(filtered_docs[i])]),
              q.last_n_runs[1])
    ELSE filtered_docs

\* retrieve_runs on its candidate pool
FilterPool(docs, q, top_k) ==
    IF \E i \in 1..Len(docs) : PostFilter(docs[i], q) = "raise"
    THEN Raised
    ELSE LET IsKept(d) == PostFilter(d, q) = "keep"
         IN  Returned(Take(LastNRuns(SelectSeq(docs, IsKept), q), top_k))

\* get_runs_by_names
get_runs_by_names(docs, run_names) ==
    LET IsMatch(d) == AnyNameIn(run_names, NameOf(d))
    IN  SelectSeq(docs, IsMatch)

\* get_date_key: the parsed datetime, or the string when strptime raises
Parses(date_str) == Len(date_str) = 2

\* docs.sort(key=get_date_key, reverse=True) compares a datetime with a str
SortRaises(docs) ==
    \E i, j \in 1..Len(docs) : Parses(DateOf(docs[i])) /\ ~Parses(DateOf(docs[j]))

\* mutant of get_latest_runs: the sorted list is returned whole
get_latest_runs_NoLimit(docs, n) ==
    IF SortRaises(docs)
    THEN Raised
    ELSE Returned(SortDesc(docs, [i \in 1..Len(docs) |-> DateOf(docs[i])]))

get_latest_runs(docs, n) ==
    IF SortRaises(docs)
    THEN Raised
    ELSE Returned(Take(SortDesc(docs, [i \in 1..Len(docs) |-> DateOf(docs[i])]), n))

----------------------------------------------------------------------------
(* The workflow nodes *)

\* mutant of PrimaryRetrieval: the documents of the name lookup go through the
\* post-filter of the other fields
PrimaryRetrieval_NamesThenFilter(docs, cand, q) ==
    IF TruthySeq(q.run_names)
    THEN FilterPool(get_runs_by_names(docs, q.run_names[1]), q, TopK)
    ELSE FilterPool(cand, q, TopK)

\* the branch of document_retriever_agent on run_names
PrimaryRetrieval(docs, cand, q) ==
    IF TruthySeq(q.run_names)
    THEN Returned(get_runs_by_names(docs, q.run_names[1]))
    ELSE FilterPool(cand, q, TopK)

\* the documents and the context document_retriever_agent ends with, given
\* what the primary retrieval returned
WithFallback(docs, primary) ==
    IF primary.raised
    THEN [raised |-> TRUE, docs |-> <<>>, context |-> ""]
    ELSE IF primary.docs # <<>>
    THEN [raised |-> FALSE, docs |-> primary.docs, context |-> "runs"]
    ELSE LET latest == get_latest_runs(docs, LatestN)
         IN  IF latest.raised
             THEN [raised |-> TRUE, docs |-> <<>>, context |-> ""]
             ELSE [raised |-> FALSE, docs |-> latest.docs,
                   context |-> IF latest.docs # <<>>
                               THEN "No specific runs found + runs"
                               ELSE "No run data available."]

\* the candidate pool of the retrieval: none is fetched for a name lookup
PoolFor(docs, rank, q) ==
    IF TruthySeq(q.run_names) THEN <<>> ELSE CandidatePool(docs, rank, q, TopK)

\* document_retriever_agent on a query that is not the sync query
RetrieverOutcome(docs, rank, q) ==
    WithFallback(docs, PrimaryRetrieval(docs, PoolFor(docs, rank, q), q))

Init ==
    /\ store \in Stores
    /\ user_message \in {"sync_data", "question"}
    /\ query = EmptyQuery
    /\ pool = <<>>
    /\ primary_docs = <<>>
    /\ fallback = FALSE
    /\ retrieved_docs = <<>>
    /\ context = ""
    /\ error = ""
    /\ pc = "query_interpreter"
    /\ ContextIdle
    /\ LlmIdle
    /\ SyncIdle
    /\ SplitIdle
    /\ UserIdle
    /\ BotIdle

query_interpreter_agent ==
    /\ pc = "query_interpreter"
    /\ pc' = "document_retriever"
    /\ \/ /\ user_message = "sync_data"
          /\ query' = SyncQuery
          /\ UNCHANGED error
       \/ /\ user_message # "sync_data"
          /\ \E q \in Queries : query' = q
          /\ UNCHANGED error
       \/ /\ user_message # "sync_data"
          /\ error' = "Query interpreter error"
          /\ UNCHANGED query
    /\ UNCHANGED <<store, user_message, pool, primary_docs, fallback,
                   retrieved_docs, context>>
    /\ UNCHANGED <<contextVars, llmVars, syncVars, splitVars, userVars, botVars>>

document_retriever_agent ==
    /\ pc = "document_retriever"
    /\ pc' = "coach_agent"
    /\ \/ /\ query.type = Some("sync")
          /\ retrieved_docs' = <<>>
          /\ context' = "Data sync in progress..."
          /\ UNCHANGED <<pool, primary_docs, fallback, error>>
       \/ /\ query.type # Some("sync")
          /\ \E rank \in Rankings(Len(store)) :
                LET cand == PoolFor(store, rank, query)
                    primary == PrimaryRetrieval(store, cand, query)
                    result == RetrieverOutcome(store, rank, query)
                IN  /\ pool' = cand
                    /\ primary_docs' = primary.docs
                    /\ fallback' = (~primary.raised /\ primary.docs = <<>>)
                    /\ IF result.raised
                       THEN /\ error' = "Document retriever error"
                            /\ UNCHANGED <<retrieved_docs, context>>
                       ELSE /\ retrieved_docs' = result.docs
                            /\ context' = result.context
                            /\ UNCHANGED error
    /\ UNCHANGED <<store, user_message, query>>
    /\ UNCHANGED <<contextVars, llmVars, syncVars, splitVars, userVars, botVars>>

Next ==
    \/ query_interpreter_agent
    \/ document_retriever_agent

Spec == Init /\ [][Next]_vars

----------------------------------------------------------------------------
(* Properties of the retrieval *)

\* the retriever node has run on a query of the interpreter
Retrieved == pc = "coach_agent" /\ query.type # Some("sync")

RetrieverFailed == error = "Document retriever error"

Ids(docs) == { docs[k].id : k \in 1..Len(docs) }

\* docs is a list of stored documents, in enumeration order
InEnumerationOrder(docs) ==
    /\ \A k \in 1..Len(docs) :
          docs[k].id \in 1..Len(store) /\ store[docs[k].id] = docs[k]
    /\ \A k \in 1..(Len(docs) - 1) : docs[k].id < docs[k + 1].id

\* docs are stored documents by date descending, equal dates in enumeration order
ByDateDescending(docs) ==
    /\ \A k \in 1..Len(docs) :
          docs[k].id \in 1..Len(store) /\ store[docs[k].id] = docs[k]
    /\ \A k \in 1..(Len(docs) - 1) :
          \/ StrLess(DateOf(docs[k + 1]), DateOf(docs[k]))
          \/ (DateOf(docs[k + 1]) = DateOf(docs[k]) /\ docs[k].id < docs[k + 1].id)

\* no stored document left out of docs has a greater date than one in docs
NoneLaterLeftOut(docs) ==
    \A i \in 1..Len(store) :
        store[i].id \notin Ids(docs) =>
            \A k \in 1..Len(docs) : ~StrLess(DateOf(docs[k]), DateOf(store[i]))

\* the fields of q other than f are null
OnlyPopulated(q, fields) ==
    \A f \in DOMAIN q : f \notin fields => q[f] = None

\* C1: whenever the primary retrieval yields zero documents, the retriever
\* returns exactly the min(5, |store|) stored documents with the greatest
\* dates, by date descending, equal dates in enumeration order.
C1_FallbackReturnsLatestFive ==
    (Retrieved /\ fallback) =>
        /\ ~RetrieverFailed
        /\ Len(retrieved_docs) = Min(LatestN, Len(store))
        /\ ByDateDescending(retrieved_docs)
        /\ NoneLaterLeftOut(retrieved_docs)

\* the part of C1 that the code keeps: on a collection whose dates all parse,
\* or all do not, the fallback returns the latest five
C1_OnUniformDates ==
    (Retrieved /\ fallback /\ ~SortRaises(store)) =>
        /\ ~RetrieverFailed
        /\ Len(retrieved_docs) = Min(LatestN, Len(store))
        /\ ByDateDescending(retrieved_docs)
        /\ NoneLaterLeftOut(retrieved_docs)

\* C3: a retrieval that reaches the fallback on a non-empty collection ends
\* with a non-empty document list and no error, whatever dates are stored.
C3_FallbackNeverFails ==
    (Retrieved /\ fallback /\ store # <<>>) =>
        ~RetrieverFailed /\ retrieved_docs # <<>>

\* the query with the run names of q and every other field null
NamesOnly(q) == [EmptyQuery EXCEPT !.run_names = q.run_names]

\* the node ended as it does on query q0 under some ranking of the collection
EndsAsOn(q0) ==
    \E rank \in Rankings(Len(store)) :
        LET r == RetrieverOutcome(store, rank, q0)
        IN  IF r.raised
            THEN RetrieverFailed
            ELSE ~RetrieverFailed /\ retrieved_docs = r.docs /\ context = r.context

\* C2 as claimed: whenever run_names is non-null, no other filter field is
\* applied: the result is the one of the same query with those fields null.
C2_NonNullNamesIgnoreOtherFields ==
    (Retrieved /\ error # "Query interpreter error" /\ query.run_names # None) =>
        EndsAsOn(NamesOnly(query))

\* C2, amended: whenever run_names is a non-empty list, the documents come
\* from the name lookup (or the fallback when it is empty) and the result is
\* the one of the same query with every other field null.
C2_NamedRunsIgnoreOtherFields ==
    (Retrieved /\ error # "Query interpreter error" /\ TruthySeq(query.run_names)) =>
        /\ pool = <<>>
        /\ EndsAsOn(NamesOnly(query))
        /\ ~RetrieverFailed =>
              retrieved_docs = IF fallback
                               THEN get_latest_runs(store, LatestN).docs
                               ELSE primary_docs

\* a name lookup under a query that also carries a type and a last_n_runs
\* returned a document of another type, and more than last_n_runs documents
C2_NamedRunsWitness ==
    /\ Retrieved
    /\ TruthySeq(query.run_names)
    /\ TruthyStr(query.type)
    /\ TruthyNum(query.last_n_runs)
    /\ ~fallback
    /\ Len(retrieved_docs) > query.last_n_runs[1]
    /\ \E k \in 1..Len(retrieved_docs) : retrieved_docs[k].type # query.type

\* C4: last_n_runs = 2 with no other filter returns the 2 documents with the
\* greatest date among all stored documents (all of them when fewer are
\* stored), in descending date order.
C4_LastTwoAmongAllStored ==
    (Retrieved /\ ~RetrieverFailed /\ query = [EmptyQuery EXCEPT !.last_n_runs = Some(2)]
       /\ store # <<>>) =>
        /\ Len(retrieved_docs) = Min(2, Len(store))
        /\ \A k \in 1..(Len(retrieved_docs) - 1) :
              ~StrLess(DateOf(retrieved_docs[k]), DateOf(retrieved_docs[k + 1]))
        /\ NoneLaterLeftOut(retrieved_docs)

\* C5 as claimed: the document list of every tier holds at most the result cap.
C5_EveryTierWithinCap ==
    pc = "coach_agent" => Len(retrieved_docs) <= TopK

\* C5, amended: the list of the filtered tier holds at most the result cap and
\* the list of the fallback tier at most five documents; the name lookup tier
\* returns every matching document, however many.
C5_FilteredAndFallbackWithinCap ==
    pc = "coach_agent" =>
        /\ fallback => Len(retrieved_docs) <= LatestN
        /\ ~TruthySeq(query.run_names) => Len(retrieved_docs) <= TopK
        /\ (TruthySeq(query.run_names) /\ ~fallback /\ ~RetrieverFailed) =>
              Ids(retrieved_docs) =
                  { i \in 1..Len(store) :
                      AnyNameIn(query.run_names[1], NameOf(store[i])) }

\* the filtered tier cut a longer list of kept candidates down to the cap
C5_CapWitness ==
    /\ Retrieved
    /\ ~TruthySeq(query.run_names)
    /\ ~fallback
    /\ Len(retrieved_docs) = TopK
    /\ Cardinality({ k \in 1..Len(pool) : PostFilter(pool[k], query) = "keep" }) > TopK

\* C6: for a query whose only populated field is type = T, every document
\* retrieve_runs returns has type metadata equal to T, and at most the result
\* cap of documents is returned.
C6_TypeOnlyReturnsThatType ==
    (Retrieved /\ OnlyPopulated(query, {"type"}) /\ query.type # None) =>
        /\ \A k \in 1..Len(primary_docs) : primary_docs[k].type = query.type
        /\ Len(primary_docs) <= TopK

\* a type-only retrieval returned documents while the collection also holds a
\* document whose type differs from T in case only, which it left out
C6_TypeOnlyWitness ==
    /\ Retrieved
    /\ query = [EmptyQuery EXCEPT !.type = Some("Tempo")]
    /\ primary_docs # <<>>
    /\ \E i \in 1..Len(store) :
          store[i].type = Some("tempo") /\ store[i].id \notin Ids(primary_docs)

\* the calendar day of a stored date, its YYYY-MM-DD block
DayOf(doc) == doc.date[1][1]

\* every candidate has a date that starts with a calendar day
AllDated(docs) ==
    \A k \in 1..Len(docs) : docs[k].date # None /\ docs[k].date[1] # <<>>

\* C7: with start_date and/or end_date populated, the post-filter keeps exactly
\* the candidates whose day d satisfies start_date <= d <= end_date, both
\* bounds inclusive: a run recorded on the end_date day itself is kept.
C7_DateBoundsInclusive ==
    (Retrieved /\ OnlyPopulated(query, {"start_date", "end_date"})
       /\ Len(pool) <= TopK /\ AllDated(pool)) =>
        Ids(primary_docs) =
            { pool[k].id : k \in
                { k \in 1..Len(pool) :
                    /\ query.start_date # None => query.start_date[1][1] <= DayOf(pool[k])
                    /\ query.end_date # None => DayOf(pool[k]) <= query.end_date[1][1] } }

\* C8 as claimed: a candidate without avg_hr is never excluded by a populated
\* max_avg_hr bound.
C8_MissingHrPassesUpperBound ==
    (Retrieved /\ OnlyPopulated(query, {"max_avg_hr"}) /\ query.max_avg_hr # None
       /\ Len(pool) <= TopK) =>
        \A k \in 1..Len(pool) :
            pool[k].avg_hr = None => pool[k].id \in Ids(primary_docs)

\* C8, amended: a candidate without avg_hr is compared as avg_hr = 9999: every
\* max_avg_hr below 9999 other than 0 excludes it, whatever the other fields
\* are, and a max_avg_hr of 0 (taken as unset) or of at least 9999 keeps it.
C8_MissingHrComparedAsHighest ==
    (Retrieved /\ ~TruthySeq(query.run_names)) =>
        \A k \in 1..Len(pool) :
            pool[k].avg_hr = None =>
                /\ (query.max_avg_hr # None /\ query.max_avg_hr[1] # 0
                      /\ query.max_avg_hr[1] < MissingHrHigh) =>
                        pool[k].id \notin Ids(primary_docs)
                /\ (OnlyPopulated(query, {"max_avg_hr"}) /\ query.max_avg_hr # None
                      /\ (query.max_avg_hr[1] = 0 \/ query.max_avg_hr[1] >= MissingHrHigh)
                      /\ Len(pool) <= TopK) =>
                        pool[k].id \in Ids(primary_docs)

\* an upper bound of 140 excluded a candidate that has no avg_hr and kept another
C8_MissingHrWitness ==
    /\ Retrieved
    /\ query = [EmptyQuery EXCEPT !.max_avg_hr = Some(140)]
    /\ primary_docs # <<>>
    /\ \E k \in 1..Len(pool) :
          pool[k].avg_hr = None /\ pool[k].id \notin Ids(primary_docs)

\* C9: a query with min_avg_hr > max_avg_hr, for every pair of numbers
\* including 0, is not rejected: the filtered tier yields zero candidates and
\* the result is the latest-5 fallback.
C9_ContradictoryHrFallsBack ==
    (Retrieved /\ ~TruthySeq(query.run_names)
       /\ query.min_avg_hr # None /\ query.max_avg_hr # None
       /\ query.min_avg_hr[1] > query.max_avg_hr[1]) =>
        /\ primary_docs = <<>>
        /\ fallback
        /\ ~RetrieverFailed
        /\ Len(retrieved_docs) = Min(LatestN, Len(store))

\* name, folded to lower case, occurs in run_name between places a and b
OccursIn(name, run_name) ==
    \E a \in 0..Len(run_name) : \E b \in a..Len(run_name) :
        /\ b - a = Len(name)
        /\ \A i \in 1..Len(name) : LowerChar(run_name[a + i]) = LowerChar(name[i])

\* C10: get_runs_by_names returns exactly the stored documents whose name
\* contains at least one requested name as a case-insensitive substring, in
\* enumeration order, and an empty list, not an error, on an empty collection.
C10_NameLookupExact ==
    (Retrieved /\ TruthySeq(query.run_names)) =>
        /\ InEnumerationOrder(primary_docs)
        /\ Ids(primary_docs) =
              { i \in 1..Len(store) :
                  \E n \in 1..Len(query.run_names[1]) :
                      OccursIn(query.run_names[1][n], NameOf(store[i])) }
        /\ store = <<>> => (primary_docs = <<>> /\ ~RetrieverFailed)

\* the lookup for "tE" returned the document named "te2", which holds the name
\* in another case and as a proper part, and left another stored document out
C10_NameLookupWitness ==
    /\ Retrieved
    /\ query.run_names = Some(<< <<"t", "E">> >>)
    /\ Len(store) > Len(primary_docs)
    /\ \E k \in 1..Len(primary_docs) : primary_docs[k].name = Some(<<"t", "e", "2">>)

----------------------------------------------------------------------------
(* The text context: ChromaManager.docs_to_context writes it from the       *)
(* retrieved documents, context_to_dataframe parses it back into rows.      *)
(*                                                                          *)
(* A text is a sequence of lines.  A line is known by its kind:             *)
(*   "field"   a "Label: value" line of a stored summary,                   *)
(*   "title"   the line "Per-KM Breakdown:",                                *)
(*   "km"      a line "KM n: Pace ..., HR ..., Power ..., Elevation Gain ..."*)
(*   "header"  the line docs_to_context writes for one document; parts is   *)
(*             what line.split("|") gives,                                  *)
(*   "notice"  the sentence the retriever puts before a fallback context,   *)
(*   "text"    any other sentence, "blank" the empty line.                  *)
(* A "km" line carries src, the place in docs of the document whose stored  *)
(* text it was copied from.  The program's text has no such mark; it is     *)
(* carried along so that a row can be compared with its own document.       *)
(***************************************************************************)

MaxCtxDocs == 2

SummaryLinesSkipped == 8
HeaderParts == 7

Line(kind, parts, km, src) == [kind |-> kind, parts |-> parts, km |-> km, src |-> src]

BlankLine == Line("blank", <<>>, 0, 0)
FieldLine == Line("field", <<>>, 0, 0)
TitleLine == Line("title", <<>>, 0, 0)
NoticeLine == Line("notice", <<>>, 0, 0)
NoDataLine == Line("text", <<>>, 0, 0)
KmLine(k, src) == Line("km", <<>>, k, src)

\* one part of a header line: the text before the value, and the value
Part(label, val) == [label |-> label, val |-> val]

CtxMeta(date, name, distance, pace, avg_hr, avg_power, elevation_gain, type) ==
    [date |-> date, name |-> name, distance |-> distance, pace |-> pace,
     avg_hr |-> avg_hr, avg_power |-> avg_power,
     elevation_gain |-> elevation_gain, type |-> type]

\* A stored run: its metadata, the number of its splits, and whether the
\* summary left out the lines of its null fields.  A name is the sequence of
\* its pieces between '|' characters.
Run(meta, splits, dropped) == [meta |-> meta, splits |-> splits, dropped |-> dropped]

RunSet ==
    { Run(CtxMeta(Some(<<1, 1>>), Some(<<"Tempo Run">>), Some(7), Some(9),
                  Some(162), Some(163), Some(15), Some("Tempo")), 2, TRUE),
      Run(CtxMeta(Some(<<2, 1>>), Some(<<"Easy Run">>), Some(3), Some(6),
                  None, None, Some(0), Some("Easy")), 1, TRUE),
      Run(CtxMeta(Some(<<3, 1>>), Some(<<"Lunch Run">>), Some(5), None,
                  None, None, Some(0), Some("Lunch")), 1, FALSE),
      Run(CtxMeta(Some(<<3, 1>>), Some(<<"Lunch Run">>), Some(5), None,
                  None, None, Some(0), Some("Lunch")), 1, TRUE),
      Run(CtxMeta(Some(<<4, 1>>), Some(<<"Trail", "5k">>), Some(12), Some(8),
                  Some(150), Some(170), Some(90), Some("Long")), 2, TRUE),
      Run(CtxMeta(None, Some(<<"Old Run">>), Some(4), Some(7),
                  Some(140), Some(160), Some(20), Some("Easy")), 1, FALSE) }

\* The summary the model writes for a run after summary_prompt: one line for
\* each of the eight fields, the line of a null field left out when the
\* summary drops null fields, then a blank line, the title and the splits.
SummaryFields(meta) ==
    << meta.name, meta.date, meta.distance, meta.type,
       meta.avg_hr, meta.pace, meta.avg_power, meta.elevation_gain >>

SummaryText(run, src) ==
    LET fields == SummaryFields(run.meta)
        IsWritten(v) == v # None \/ ~run.dropped
    IN  [k \in 1..Len(SelectSeq(fields, IsWritten)) |-> FieldLine]
        \o <<BlankLine, TitleLine>>
        \o [k \in 1..run.splits |-> KmLine(k, src)]

\* Document(page_content=summary.strip(), metadata=metadata)
Document(run, src) == [meta |-> run.meta, page_content |-> SummaryText(run, src)]

CtxDocLists ==
    { [i \in DOMAIN runs |-> Document(runs[i], i)] :
        runs \in UNION { [1..n -> RunSet] : n \in 0..MaxCtxDocs } }

\* str(name).split("|") as header parts
NameParts(name) ==
    IF name = None
    THEN << Part("name", "None") >>
    ELSE [k \in 1..Len(name[1]) |-> Part("name", name[1][k])]

\* the line docs_to_context writes for a document, split at '|'
HeaderLine(meta) ==
    Line("header",
         << Part("date", meta.date) >>
         \o NameParts(meta.name)
         \o << Part("Distance", meta.distance), Part("Pace", meta.pace),
               Part("Avg HR", meta.avg_hr), Part("Elevation", meta.elevation_gain),
               Part("Type", meta.type) >>,
         0, 0)

\* "\n".join(doc.page_content.split("\n")[8:]): the empty string is one empty line
KmData(page_content) ==
    IF Len(page_content) > SummaryLinesSkipped
    THEN SubSeq(page_content, SummaryLinesSkipped + 1, Len(page_content))
    ELSE << BlankLine >>

RECURSIVE ContextLines(_)
ContextLines(docs) ==
    IF docs = <<>>
    THEN <<>>
    ELSE << BlankLine, HeaderLine(docs[1].meta) >>
         \o KmData(docs[1].page_content)
         \o ContextLines(Tail(docs))

\* docs_to_context(docs, include_per_km=True)
docs_to_context(docs) ==
    IF docs = <<>> THEN << NoDataLine >> ELSE ContextLines(docs)

\* re.match(r"^\d{4}-\d{2}-\d{2}", line): the line begins with a written date
MatchesDate(line) ==
    line.kind = "header" /\ line.parts[1].val # None /\ line.parts[1].val[1] # <<>>

\* the first [\d.]+ of a name piece, none in a piece without a digit
PieceNumber(piece) == IF piece = "5k" THEN Some(5) ELSE None

\* float(re.findall(r"[\d.]+", part)[0]) if re.findall(r"[\d.]+", part) else 0
FirstNumber(part) ==
    LET found == IF part.label = "name" THEN PieceNumber(part.val)
                 ELSE IF part.label \in {"Distance", "Pace", "Avg HR", "Elevation"}
                 THEN part.val
                 ELSE None
    IN  IF found = None THEN 0 ELSE found[1]

\* part.strip() of a part that holds text
PartText(part) ==
    IF part.label = "name" THEN part.val
    ELSE IF part.label = "Type"
    THEN (IF part.val = None THEN "Type: None" ELSE part.val[1])
    ELSE part.label

\* part.strip().replace("Type: ", "")
TypeText(part) ==
    IF part.label = "Type"
    THEN (IF part.val = None THEN "None" ELSE part.val[1])
    ELSE PartText(part)

\* the dict a header line of at least seven parts sets current_run to
HeaderRun(parts) ==
    [date |-> parts[1].val[1],
     run_name |-> PartText(parts[2]),
     distance |-> FirstNumber(parts[3]),
     avg_pace |-> FirstNumber(parts[4]),
     avg_hr |-> FirstNumber(parts[5]),
     total_elevation |-> FirstNumber(parts[6]),
     run_type |-> TypeText(parts[7])]

\* current_run = {}: every current_run.get() gives its default
NoRun ==
    [date |-> <<>>, run_name |-> "", distance |-> 0, avg_pace |-> 0,
     avg_hr |-> 0, total_elevation |-> 0, run_type |-> ""]

\* the row of a split line under current_run
KmRow(cur, line) ==
    LET run == IF cur = None THEN NoRun ELSE cur[1]
    IN  [date |-> run.date, run_name |-> run.run_name, run_type |-> run.run_type,
         km |-> line.km, distance |-> run.distance, avg_hr |-> run.avg_hr,
         avg_pace |-> run.avg_pace, total_elevation |-> run.total_elevation,
         src |-> line.src]

\* mutant of AppendRow: a split line under no header is passed over
AppendRow_UnderHeaderOnly(rws, cur, line) ==
    IF cur = None THEN rws ELSE Append(rws, KmRow(cur, line))

\* rows.append({...}) of the split branch
AppendRow(rws, cur, line) == Append(rws, KmRow(cur, line))

\* one pass of the loop of context_to_dataframe over a line
ParseLine(line, cur, rws) ==
    IF line.kind = "blank"
    THEN [current_run |-> cur, rows |-> rws]
    ELSE IF MatchesDate(line)
    THEN [current_run |-> IF Len(line.parts) >= HeaderParts
                          THEN Some(HeaderRun(line.parts))
                          ELSE cur,
          rows |-> rws]
    ELSE IF line.kind = "km"
    THEN [current_run |-> cur, rows |-> AppendRow(rws, cur, line)]
    ELSE [current_run |-> cur, rows |-> rws]

InitContext ==
    /\ ctx_docs \in CtxDocLists
    /\ notice \in BOOLEAN
    /\ ctx = <<>>
    /\ cursor = 0
    /\ current_run = None
    /\ rows = <<>>
    /\ cpc = "docs_to_context"
    /\ RetrievalIdle
    /\ LlmIdle
    /\ SyncIdle
    /\ SplitIdle
    /\ UserIdle
    /\ BotIdle

\* document_retriever_agent builds the context of the documents it retrieved
BuildContext ==
    /\ cpc = "docs_to_context"
    /\ ctx' = IF notice /\ ctx_docs # <<>>
              THEN << NoticeLine, BlankLine >> \o docs_to_context(ctx_docs)
              ELSE docs_to_context(ctx_docs)
    /\ cursor' = 1
    /\ cpc' = "context_to_dataframe"
    /\ UNCHANGED <<ctx_docs, notice, current_run, rows>>
    /\ UNCHANGED <<retrievalVars, llmVars, syncVars, splitVars, userVars, botVars>>

\* context_to_dataframe, one line of context.splitlines() at a step
context_to_dataframe ==
    /\ cpc = "context_to_dataframe"
    /\ IF cursor <= Len(ctx)
       THEN LET step == ParseLine(ctx[cursor], current_run, rows)
            IN  /\ current_run' = step.current_run
                /\ rows' = step.rows
                /\ cursor' = cursor + 1
                /\ UNCHANGED cpc
       ELSE /\ cpc' = "done"
            /\ UNCHANGED <<current_run, rows, cursor>>
    /\ UNCHANGED <<ctx_docs, notice, ctx>>
    /\ UNCHANGED <<retrievalVars, llmVars, syncVars, splitVars, userVars, botVars>>

NextContext ==
    \/ BuildContext
    \/ context_to_dataframe

SpecContext == InitContext /\ [][NextContext]_vars

----------------------------------------------------------------------------
(* Properties of the text round trip *)

Parsed == cpc = "done"

\* the split lines of a stored text
SplitLines(page_content) ==
    LET IsKm(l) == l.kind = "km" IN SelectSeq(page_content, IsKm)

RECURSIVE SplitsOf(_)
SplitsOf(docs) ==
    IF docs = <<>> THEN 0
    ELSE Len(SplitLines(docs[1].page_content)) + SplitsOf(Tail(docs))

\* C11: serializing documents with their splits and parsing the text back
\* gives one row for every split line of every document's stored text,
\* whatever the layout of the stored summaries, with or without the
\* fallback notice before the text.
C11_RowPerStoredSplit == Parsed => Len(rows) = SplitsOf(ctx_docs)

\* C12: every row carries the date, run name, run type, distance, average
\* pace, average heart rate and total elevation of the document its split
\* line was stored with, whatever the metadata values are.
C12_RowsCarryOwnParentFields ==
    Parsed =>
        \A k \in 1..Len(rows) :
            LET meta == ctx_docs[rows[k].src].meta
            IN  /\ Some(rows[k].date) = meta.date
                /\ Some(<<rows[k].run_name>>) = meta.name
                /\ Some(rows[k].run_type) = meta.type
                /\ Some(rows[k].distance) = meta.distance
                /\ Some(rows[k].avg_pace) = meta.pace
                /\ Some(rows[k].avg_hr) = meta.avg_hr
                /\ Some(rows[k].total_elevation) = meta.elevation_gain

\* the split lines the parser has gone past
SplitsPassed ==
    LET IsKm(l) == l.kind = "km"
    IN  Len(SelectSeq(SubSeq(ctx, 1, cursor - 1), IsKm))

NoHeaderYet == cpc = "context_to_dataframe" /\ current_run = None

----------------------------------------------------------------------------
(* A query the interpreter could not turn into a filter *)

\* query_interpreter_agent caught the ValueError of interpret_query
InterpreterFailed == error = "Query interpreter error"

\* C14: when the model's output for a query does not parse as the structured
\* filter, the failure is surfaced as an error and no filter is put in its
\* place: no retrieval is executed for that request with a filter the
\* interpreter did not produce.
C14_NoRetrievalAfterInterpreterFailure ==
    (pc = "coach_agent" /\ InterpreterFailed) =>
        /\ pool = <<>>
        /\ retrieved_docs = <<>>
        /\ context = ""

----------------------------------------------------------------------------
(* LLMClient: the calls of the generative model *)

MaxReplies == 2

\* What one self.llm.invoke can do: answer with JSON or with other text, or
\* raise; "429" and "quota" are exceptions whose message holds that word.
Replies == {"json", "text", "429", "quota", "error"}

Answers(reply) == reply \in {"json", "text"}

\* "429" in str(e) or "quota" in str(e).lower()
RateLimited(reply) == reply \in {"429", "quota"}

LlmCalls == {"create_documents", "interpret_query", "get_coach_response", "get_plotting_code"}

\* how a method ended: it returned or raised, after so many invocations of
\* the model and so many waits
Invoked(status, tries, waits) ==
    [status |-> status, attempts |-> tries, waits |-> waits]

\* self.llm.invoke(prompt_text), outside any try
InvokeOnce(replies) ==
    IF Answers(replies[1]) THEN Invoked("returned", 1, 0) ELSE Invoked("raised", 1, 0)

\* the try/except of create_documents around the summary call
InvokeWithRetry(replies) ==
    IF Answers(replies[1])
    THEN Invoked("returned", 1, 0)
    ELSE IF RateLimited(replies[1])
    THEN (IF Answers(replies[2])
          THEN Invoked("returned", 2, 1)
          ELSE Invoked("raised", 2, 1))
    ELSE Invoked("raised", 1, 0)

\* interpret_query: the reply is parsed with json.loads
InterpretOutcome(replies) ==
    IF replies[1] = "text" THEN Invoked("raised", 1, 0) ELSE InvokeOnce(replies)

InitLlm ==
    /\ llm_call \in LlmCalls
    /\ llm_replies \in [1..MaxReplies -> Replies]
    /\ llm_result = None
    /\ RetrievalIdle
    /\ ContextIdle
    /\ SyncIdle
    /\ SplitIdle
    /\ UserIdle
    /\ BotIdle

\* the summary of one run in create_documents
create_documents_summary ==
    /\ llm_call = "create_documents" /\ llm_result = None
    /\ llm_result' = Some(InvokeWithRetry(llm_replies))
    /\ UNCHANGED <<llm_call, llm_replies, retrievalVars, contextVars, syncVars, splitVars, userVars, botVars>>

interpret_query ==
    /\ llm_call = "interpret_query" /\ llm_result = None
    /\ llm_result' = Some(InterpretOutcome(llm_replies))
    /\ UNCHANGED <<llm_call, llm_replies, retrievalVars, contextVars, syncVars, splitVars, userVars, botVars>>

get_coach_response ==
    /\ llm_call = "get_coach_response" /\ llm_result = None
    /\ llm_result' = Some(InvokeOnce(llm_replies))
    /\ UNCHANGED <<llm_call, llm_replies, retrievalVars, contextVars, syncVars, splitVars, userVars, botVars>>

get_plotting_code ==
    /\ llm_call = "get_plotting_code" /\ llm_result = None
    /\ llm_result' = Some(InvokeOnce(llm_replies))
    /\ UNCHANGED <<llm_call, llm_replies, retrievalVars, contextVars, syncVars, splitVars, userVars, botVars>>

NextLlm ==
    \/ create_documents_summary
    \/ interpret_query
    \/ get_coach_response
    \/ get_plotting_code

SpecLlm == InitLlm /\ [][NextLlm]_vars

\* C15: every call of the generative model (summary, query interpretation,
\* coaching, plot code) whose first attempt fails with a rate-limit signal is
\* retried exactly once after a fixed wait; a failure that is no rate-limit
\* signal propagates without a retry; no call is attempted more than twice.
C15_RateLimitRetriedOnce ==
    llm_result # None =>
        LET r == llm_result[1]
        IN  /\ r.attempts <= 2
            /\ RateLimited(llm_replies[1]) => (r.attempts = 2 /\ r.waits = 1)
            /\ llm_replies[1] = "error" => (r.attempts = 1 /\ r.status = "raised")

----------------------------------------------------------------------------
(* The requests of one user: /sync runs the workflow's ingestion nodes      *)
(* (strava_agent with StravaClient.fetch_all_runs, document_creator,        *)
(* document_storage), a question passes through them, /reset_all deletes    *)
(* the user's store.                                                        *)
(*                                                                          *)
(* An activity is the JSON object of the activity list: name is None when   *)
(* the key is missing; start says whether start_date_local is "absent",     *)
(* "null", "bad" (a string that is no timestamp) or "ok"; stream is what    *)
(* the streams endpoint answers with status 200, None for an answer without *)
(* stream data, else the samples of the distance stream in metres; summary  *)
(* is the set of the summary keys that are present.  The samples of the     *)
(* other streams and the name-derived run type are left out.                *)
(***************************************************************************)

MaxActs == 2
MaxRequests == 2
MaxAttempts == 3

KmLength == 1000

Activity(type, name, start, stream, summary) ==
    [type |-> type, name |-> name, start |-> start, stream |-> stream,
     summary |-> summary]

SummaryKeys ==
    {"distance", "moving_time", "total_elevation_gain", "average_heartrate",
     "average_speed"}

\* the value of a summary key that is present
SummaryValue(key) ==
    CASE key = "distance" -> 6000
      [] key = "moving_time" -> 1800
      [] key = "total_elevation_gain" -> 10
      [] key = "average_heartrate" -> 140
      [] key = "average_speed" -> 5

\* activity.get(key, default)
Get(a, key, default) == IF key \in a.summary THEN SummaryValue(key) ELSE default

TempoRun == Activity("Run", Some("Tempo Run"), "ok", Some(<<0, 600, 1200, 2100>>), SummaryKeys)
LunchRun == Activity("Run", Some("Lunch Run"), "ok", None, SummaryKeys)
NamelessRun == Activity("Run", None, "ok", Some(<<0, 600, 1200>>), SummaryKeys)
UndatedRun == Activity("Run", Some("Undated Run"), "absent", None, SummaryKeys)
BadDateRun == Activity("Run", Some("Bad Date Run"), "bad", Some(<<0, 600, 1200>>), SummaryKeys)
NullDateRun == Activity("Run", Some("Null Date Run"), "null", Some(<<0, 600, 1200>>), SummaryKeys)
Ride == Activity("Ride", Some("Evening Ride"), "ok", Some(<<0, 5000>>), SummaryKeys)

CoreActivities == {TempoRun, LunchRun, NamelessRun}

\* runs without a completed kilometre, with every choice of summary keys
ShortRuns ==
    { Activity("Run", Some("Short Run"), "ok", stream, keys) :
        stream \in {None, Some(<<>>), Some(<<0, 400, 900>>), Some(<<1500>>)},
        keys \in SUBSET SummaryKeys }

Upstreams ==
    UNION { [1..n -> CoreActivities] : n \in 0..MaxActs }
    \cup { <<Ride, TempoRun>>, <<UndatedRun, TempoRun>>, <<BadDateRun, TempoRun>>,
           <<NullDateRun, TempoRun>>, <<TempoRun, NullDateRun>> }

\* a stored document: the name of its metadata and the splits of its text
StoredDoc(name, kms) == [name |-> name, kms |-> kms]

InitialStores == { <<>>, << StoredDoc("Old Run", <<1>>) >> }

IsRun(a) == a.type \in {"Run", "Trail Run", "Virtual Run"}

\* mutant of km_wise_data: a kilometre without a sample gets a row too
km_wise_data_NullRows(st) ==
    IF st = None THEN <<>>
    ELSE IF st[1] = <<>> THEN <<>>
    ELSE [km \in 1..(st[1][Len(st[1])] \div KmLength) |-> km]

\* km_wise_data: the KM column of the frame, None being streams = {}
km_wise_data(st) ==
    IF st = None THEN <<>>
    ELSE IF st[1] = <<>> THEN <<>>
    ELSE LET dist == st[1]
             km_segments == dist[Len(dist)] \div KmLength
             HasSample(km) ==
                 \E i \in 1..Len(dist) :
                     dist[i] >= (km - 1) * KmLength /\ dist[i] < km * KmLength
         IN  SelectSeq([km \in 1..km_segments |-> km], HasSample)

\* the frame of a run: one row for each entry of kms
RunFrame(name, start, kms, total_distance, avg_hr, avg_pace, elevation_gain) ==
    [name |-> name, start |-> start, kms |-> kms, total_distance |-> total_distance,
     avg_hr |-> avg_hr, avg_pace |-> avg_pace, elevation_gain |-> elevation_gain]

\* the frame fetch_all_runs makes of a non-empty km_wise_data
StreamFrame(a, kms) ==
    RunFrame(a.name[1], a.start, kms, kms[Len(kms)], None, None, 0)

\* pd.to_datetime(activity.get("start_date_local")) of a value that is no
\* bad string: NaT for a missing or null one
ToDatetime(start) == IF start = "ok" THEN "ok" ELSE "null"

\* the one-row frame of create_fallback_data
FallbackFrame(a) ==
    LET distance == Get(a, "distance", 0) \div KmLength
        average_speed == Get(a, "average_speed", 0)
        average_heartrate == Get(a, "average_heartrate", 0)
    IN  RunFrame(IF a.name = None THEN "Unknown Run" ELSE a.name[1],
                 ToDatetime(a.start),
                 <<1>>,
                 distance,
                 IF average_heartrate # 0 THEN Some(average_heartrate) ELSE None,
                 IF average_speed > 0
                 THEN Some(((distance * KmLength) \div average_speed) \div 60)
                 ELSE None,
                 Get(a, "total_elevation_gain", 0))

\* mutant of create_fallback_data: the pace is computed without the test of
\* average_speed, and the division by zero is caught
create_fallback_data_NeedsSpeed(a) ==
    IF a.start = "bad" \/ "average_speed" \notin a.summary
    THEN None
    ELSE Some(FallbackFrame(a))

\* create_fallback_data: None when pd.to_datetime raises
create_fallback_data(a) ==
    IF a.start = "bad" THEN None ELSE Some(FallbackFrame(a))

\* the try block of fetch_all_runs for one running activity, and its except
ProcessActivity(a, st, frames) ==
    LET kms == km_wise_data(st)
    IN  IF kms # <<>> /\ a.start # "bad"
        THEN Append(frames, StreamFrame(a, kms))
        ELSE LET fallback_df == create_fallback_data(a)
             IN  IF fallback_df = None THEN frames ELSE Append(frames, fallback_df[1])

\* get_existing_run_names
get_existing_run_names(docs) == [i \in 1..Len(docs) |-> docs[i].name]

\* run_name not in existing_runs
IsNewRun(frame, names) == \A i \in 1..Len(names) : names[i] # frame.name

\* the store under "./chroma_stores/<user_id>": the user's store when the
\* process runs in new_bot, else a directory no node writes to
RelativeStore(docs, in_app) == IF in_app THEN docs ELSE <<>>

\* convert_to_json_list: strftime raises on NaT
convert_to_json_list(frames) ==
    IF \E i \in 1..Len(frames) : frames[i].start = "null"
    THEN Raised
    ELSE Returned([i \in 1..Len(frames) |-> StoredDoc(frames[i].name, frames[i].kms)])

\* what the model answers to the summary prompt of one run, attempt by attempt
SummaryReplies ==
    { <<"text", "text">>, <<"429", "text">>, <<"429", "429">>, <<"error", "text">> }

\* create_documents: an exception of any summary call ends the loop
create_documents(jsons, replies) ==
    IF \E i \in 1..Len(jsons) : InvokeWithRetry(replies[i]).status = "raised"
    THEN Raised
    ELSE Returned(jsons)

\* mutant of add_documents: the collection is written anew
add_documents_Overwrite(docs, new) == new

\* add_documents
add_documents(docs, new) == docs \o new

InitSync ==
    /\ \/ /\ upstream \in Upstreams
          /\ chroma \in InitialStores
          /\ cwd_is_app \in BOOLEAN
       \/ /\ upstream \in { <<a>> : a \in ShortRuns }
          /\ chroma = <<>>
          /\ cwd_is_app = TRUE
    /\ requests = 0
    /\ request = ""
    /\ spc = "idle"
    /\ page = 1
    /\ act = 1
    /\ attempts = 0
    /\ streams = None
    /\ existing_runs = <<>>
    /\ dfs = <<>>
    /\ json_list = <<>>
    /\ documents = <<>>
    /\ sync_error = ""
    /\ RetrievalIdle
    /\ ContextIdle
    /\ LlmIdle
    /\ SplitIdle
    /\ UserIdle
    /\ BotIdle

\* StravaBot.sync_command invokes the workflow on "sync_data"
sync_command ==
    /\ spc = "idle" /\ requests < MaxRequests
    /\ requests' = requests + 1
    /\ request' = "sync_data"
    /\ spc' = "strava_agent"
    /\ UNCHANGED <<chroma, cwd_is_app, upstream, page, act, attempts, streams,
                   existing_runs, dfs, json_list, documents, sync_error>>
    /\ UNCHANGED <<retrievalVars, contextVars, llmVars, splitVars, userVars, botVars>>

\* StravaBot.handle_message invokes the workflow on a question
handle_message ==
    /\ spc = "idle" /\ requests < MaxRequests
    /\ requests' = requests + 1
    /\ request' = "question"
    /\ spc' = "strava_agent"
    /\ UNCHANGED <<chroma, cwd_is_app, upstream, page, act, attempts, streams,
                   existing_runs, dfs, json_list, documents, sync_error>>
    /\ UNCHANGED <<retrievalVars, contextVars, llmVars, splitVars, userVars, botVars>>

\* StravaBot.reset_all_command: shutil.rmtree of the user's store
reset_all_command ==
    /\ spc = "idle" /\ requests < MaxRequests
    /\ requests' = requests + 1
    /\ chroma' = <<>>
    /\ UNCHANGED <<cwd_is_app, upstream, request, spc, page, act, attempts, streams,
                   existing_runs, dfs, json_list, documents, sync_error>>
    /\ UNCHANGED <<retrievalVars, contextVars, llmVars, splitVars, userVars, botVars>>

\* strava_agent up to the call of fetch_all_runs
strava_agent ==
    /\ spc = "strava_agent"
    /\ \/ /\ request # "sync_data"
          /\ spc' = "document_creator"
          /\ UNCHANGED <<existing_runs, page, attempts, sync_error>>
       \/ /\ request = "sync_data"
          /\ sync_error' = "No Strava refresh token found"
          /\ spc' = "document_creator"
          /\ UNCHANGED <<existing_runs, page, attempts>>
       \/ /\ request = "sync_data"
          /\ existing_runs' = get_existing_run_names(RelativeStore(chroma, cwd_is_app))
          /\ page' = 1
          /\ attempts' = 0
          /\ spc' = "get_activities"
          /\ UNCHANGED sync_error
    /\ UNCHANGED <<chroma, cwd_is_app, upstream, requests, request, act, streams,
                   dfs, json_list, documents>>
    /\ UNCHANGED <<retrievalVars, contextVars, llmVars, splitVars, userVars, botVars>>

\* an exception leaves fetch_all_runs: strava_agent returns with the error,
\* strava_data = [] and json_list = []
FetchRaises(err) ==
    /\ sync_error' = err
    /\ dfs' = <<>>
    /\ json_list' = <<>>
    /\ spc' = "document_creator"

\* get_activities, one HTTP request at a step, and the test of its page in
\* fetch_all_runs; a page holds every activity of the account
get_activities ==
    /\ spc = "get_activities"
    /\ \E status \in {200, 429, 500} :
          \/ /\ status = 429
             /\ attempts + 1 < MaxAttempts
             /\ attempts' = attempts + 1
             /\ UNCHANGED <<spc, act, dfs, json_list, sync_error>>
          \/ /\ status = 500
             /\ attempts' = attempts + 1
             /\ FetchRaises("Failed to fetch Strava data: HTTPError")
             /\ UNCHANGED act
          \/ /\ status = 200
             /\ attempts' = attempts + 1
             /\ IF page = 1 /\ upstream # <<>>
                THEN act' = 1 /\ spc' = "activity"
                ELSE spc' = "filter" /\ UNCHANGED act
             /\ UNCHANGED <<dfs, json_list, sync_error>>
    /\ UNCHANGED <<chroma, cwd_is_app, upstream, requests, request, page, streams,
                   existing_runs, documents>>
    /\ UNCHANGED <<retrievalVars, contextVars, llmVars, splitVars, userVars, botVars>>

\* the head of the loop over a page: the type test and the print of the
\* activity's name and start_date_local, both outside the try block
next_activity ==
    /\ spc = "activity"
    /\ IF act > Len(upstream)
       THEN /\ page' = page + 1
            /\ attempts' = 0
            /\ spc' = "get_activities"
            /\ UNCHANGED <<act, dfs, json_list, sync_error>>
       ELSE IF ~IsRun(upstream[act])
       THEN /\ act' = act + 1
            /\ UNCHANGED <<page, attempts, spc, dfs, json_list, sync_error>>
       ELSE IF upstream[act].name = None \/ upstream[act].start = "absent"
       THEN /\ FetchRaises("Failed to fetch Strava data: KeyError")
            /\ UNCHANGED <<page, attempts, act>>
       ELSE /\ attempts' = 0
            /\ spc' = "get_activity_streams"
            /\ UNCHANGED <<page, act, dfs, json_list, sync_error>>
    /\ UNCHANGED <<chroma, cwd_is_app, upstream, requests, request, streams,
                   existing_runs, documents>>
    /\ UNCHANGED <<retrievalVars, contextVars, llmVars, splitVars, userVars, botVars>>

\* get_activity_streams, one HTTP request at a step
get_activity_streams ==
    /\ spc = "get_activity_streams"
    /\ \E status \in {200, 404, 429, 500} :
          \/ /\ status = 429
             /\ attempts + 1 < MaxAttempts
             /\ attempts' = attempts + 1
             /\ UNCHANGED <<spc, streams>>
          \/ /\ status \in {404, 500}
             /\ attempts' = attempts + 1
             /\ streams' = None
             /\ spc' = "km_wise_data"
          \/ /\ status = 200
             /\ attempts' = attempts + 1
             /\ streams' = upstream[act].stream
             /\ spc' = "km_wise_data"
    /\ UNCHANGED <<chroma, cwd_is_app, upstream, requests, request, page, act,
                   existing_runs, dfs, json_list, documents, sync_error>>
    /\ UNCHANGED <<retrievalVars, contextVars, llmVars, splitVars, userVars, botVars>>

\* the rest of the try block of fetch_all_runs for the activity
process_activity ==
    /\ spc = "km_wise_data"
    /\ dfs' = ProcessActivity(upstream[act], streams, dfs)
    /\ act' = act + 1
    /\ spc' = "activity"
    /\ UNCHANGED <<chroma, cwd_is_app, upstream, requests, request, page, attempts,
                   streams, existing_runs, json_list, documents, sync_error>>
    /\ UNCHANGED <<retrievalVars, contextVars, llmVars, splitVars, userVars, botVars>>

\* strava_agent after fetch_all_runs: the new runs and their JSON
filter_new_runs ==
    /\ spc = "filter"
    /\ LET IsNew(frame) == IsNewRun(frame, existing_runs)
           new_dfs == SelectSeq(dfs, IsNew)
           converted == convert_to_json_list(new_dfs)
       IN  /\ dfs' = new_dfs
           /\ json_list' = IF converted.raised THEN <<>> ELSE converted.docs
    /\ spc' = "document_creator"
    /\ UNCHANGED <<chroma, cwd_is_app, upstream, requests, request, page, act,
                   attempts, streams, existing_runs, documents, sync_error>>
    /\ UNCHANGED <<retrievalVars, contextVars, llmVars, splitVars, userVars, botVars>>

document_creator_agent ==
    /\ spc = "document_creator"
    /\ IF request # "sync_data" \/ json_list = <<>>
       THEN UNCHANGED <<documents, sync_error>>
       ELSE \E replies \in [1..Len(json_list) -> SummaryReplies] :
               LET created == create_documents(json_list, replies)
               IN  IF created.raised
                   THEN sync_error' = "Document creator error" /\ UNCHANGED documents
                   ELSE documents' = created.docs /\ UNCHANGED sync_error
    /\ spc' = "document_storage"
    /\ UNCHANGED <<chroma, cwd_is_app, upstream, requests, request, page, act,
                   attempts, streams, existing_runs, dfs, json_list>>
    /\ UNCHANGED <<retrievalVars, contextVars, llmVars, splitVars, userVars, botVars>>

document_storage_agent ==
    /\ spc = "document_storage"
    /\ IF request # "sync_data" \/ documents = <<>>
       THEN UNCHANGED <<chroma, sync_error>>
       ELSE \/ chroma' = add_documents(chroma, documents) /\ UNCHANGED sync_error
            \/ sync_error' = "Document storage error" /\ UNCHANGED chroma
    /\ spc' = "done"
    /\ UNCHANGED <<cwd_is_app, upstream, requests, request, page, act, attempts,
                   streams, existing_runs, dfs, json_list, documents>>
    /\ UNCHANGED <<retrievalVars, contextVars, llmVars, splitVars, userVars, botVars>>

\* the rest of the workflow and the bot's reply: the request is over
reply ==
    /\ spc = "done"
    /\ spc' = "idle"
    /\ request' = ""
    /\ page' = 1
    /\ act' = 1
    /\ attempts' = 0
    /\ streams' = None
    /\ existing_runs' = <<>>
    /\ dfs' = <<>>
    /\ json_list' = <<>>
    /\ documents' = <<>>
    /\ sync_error' = ""
    /\ UNCHANGED <<chroma, cwd_is_app, upstream, requests>>
    /\ UNCHANGED <<retrievalVars, contextVars, llmVars, splitVars, userVars, botVars>>

NextSync ==
    \/ sync_command
    \/ handle_message
    \/ reset_all_command
    \/ strava_agent
    \/ get_activities
    \/ next_activity
    \/ get_activity_streams
    \/ process_activity
    \/ filter_new_runs
    \/ document_creator_agent
    \/ document_storage_agent
    \/ reply

SpecSync == InitSync /\ [][NextSync]_vars

----------------------------------------------------------------------------
(* Properties of the Strava calls and of the requests *)

\* C16: a throttled call of the activity source (HTTP 429 on get_activities
\* or get_activity_streams) is retried once after a fixed wait and, if it is
\* throttled again, the failure is surfaced: the call ends after at most two
\* attempts.
C16_AtMostTwoAttempts == attempts <= 2

NameStored(docs, name) == \E i \in 1..Len(docs) : docs[i].name = name

\* C17: sync stores a document only for a fetched activity whose name is not
\* among the names already stored for that user, the names being read from
\* the store the documents are written to; so a sync run again on an
\* unchanged upstream adds no document.
C17_StoresOnlyUnstoredNames ==
    [][\A k \in (Len(chroma) + 1)..Len(chroma') :
          ~NameStored(chroma, chroma'[k].name)]_vars

\* every document of the store is still in it, unchanged
DocumentsKept ==
    /\ Len(chroma') >= Len(chroma)
    /\ SubSeq(chroma', 1, Len(chroma)) = chroma

\* C18: across any sequence of sync and question requests, a failed sync
\* among them, every document that was in the store before a request is
\* still in it, unchanged, after it; only the full reset removes documents.
C18_OnlyResetRemovesDocuments == [][reset_all_command \/ DocumentsKept]_vars

\* a second request, a sync that stored nothing new and ended in an error,
\* has left the document of the first day and the documents of the first
\* sync in the store
C18_FailedSyncKeptStoreWitness ==
    /\ spc = "done" /\ request = "sync_data" /\ requests = 2
    /\ sync_error # ""
    /\ Len(chroma) >= 2
    /\ chroma[1] = StoredDoc("Old Run", <<1>>)

\* a running activity with the required fields: a name and a timestamp
WellFormed(a) == IsRun(a) /\ a.name # None /\ a.start = "ok"

\* failures of the sync that are not those of a record
OutsideFailures ==
    { "No Strava refresh token found", "Failed to fetch Strava data: HTTPError",
      "Document creator error", "Document storage error" }

SyncEnded == spc = "done" /\ request = "sync_data" /\ sync_error \notin OutsideFailures

\* C19: within one sync batch an activity whose record is malformed or lacks
\* a required field (name, timestamp) is skipped and does not abort the
\* batch: every other new activity is still converted, summarized and stored.
C19_MalformedSkippedOthersStored ==
    SyncEnded =>
        \A i \in 1..Len(upstream) :
            WellFormed(upstream[i]) => NameStored(chroma, upstream[i].name[1])

\* the streams hold no distance sample of a completed kilometre
ZeroSamples(st) ==
    \/ st = None
    \/ st[1] = <<>>
    \/ st[1][Len(st[1])] < KmLength

\* C20: every running activity with zero distance samples (no streams, an
\* empty distance stream, or less than one completed kilometre) yields
\* exactly one record, with exactly one synthetic split of index 1, whatever
\* summary fields the activity has.  The activities meant are those that
\* reach the try block with a timestamp pandas reads; one whose timestamp
\* is no timestamp is a malformed record and is passed over.
C20_ZeroSamplesOneSyntheticSplit ==
    [][(spc = "km_wise_data" /\ ZeroSamples(streams) /\ upstream[act].start # "bad")
          => /\ Len(dfs') = Len(dfs) + 1
             /\ SubSeq(dfs', 1, Len(dfs)) = dfs
             /\ dfs'[Len(dfs')].name = upstream[act].name[1]
             /\ dfs'[Len(dfs')].kms = <<1>>]_vars

\* the record of a run without streams and without any summary field
C20_BareActivityWitness ==
    /\ spc = "activity" /\ act = 2
    /\ upstream[1].summary = {} /\ upstream[1].stream = None
    /\ Len(dfs) = 1 /\ dfs[1].kms = <<1>> /\ dfs[1].avg_pace = None

----------------------------------------------------------------------------
(* The per-kilometre table of one distance stream.  Strava's distance      *)
(* stream is the cumulative distance in metres, sample by sample, so it     *)
(* never decreases; its last sample is the total distance.                  *)

MaxSamples == 4

DistSamples == {0, 600, 1200, 2100, 3500}

DistStreams ==
    { d \in UNION { [1..n -> DistSamples] : n \in 0..MaxSamples } :
        \A i \in 1..(Len(d) - 1) : d[i] <= d[i + 1] }

InitSplits ==
    /\ dist_stream \in DistStreams
    /\ km_rows = <<>>
    /\ kpc = "km_wise_data"
    /\ RetrievalIdle
    /\ ContextIdle
    /\ LlmIdle
    /\ SyncIdle
    /\ UserIdle
    /\ BotIdle

\* km_wise_data(streams) of an answer that has the distance stream
split_activity ==
    /\ kpc = "km_wise_data"
    /\ km_rows' = km_wise_data(Some(dist_stream))
    /\ kpc' = "done"
    /\ UNCHANGED <<dist_stream, retrievalVars, contextVars, llmVars, syncVars, userVars, botVars>>

NextSplits == split_activity

SpecSplits == InitSplits /\ [][NextSplits]_vars

\* the samples of the stream that fall in kilometre km
InBucket(km) ==
    \E i \in 1..Len(dist_stream) :
        dist_stream[i] >= (km - 1) * KmLength /\ dist_stream[i] < km * KmLength

\* the completed kilometres of the stream
Completed ==
    IF dist_stream = <<>> THEN 0 ELSE dist_stream[Len(dist_stream)] \div KmLength

\* C21: for every distance stream the split indices km_wise_data produces
\* are strictly increasing (so none is repeated), each lies in
\* 1..floor(total_distance / 1000), and a completed kilometre has an entry
\* exactly when at least one sample falls in its bucket: an empty bucket is
\* left out, never emitted as a row of nulls.
C21_SplitsIncreasingOnePerFilledBucket ==
    kpc = "done" =>
        /\ \A i \in 1..(Len(km_rows) - 1) : km_rows[i] < km_rows[i + 1]
        /\ \A i \in 1..Len(km_rows) : km_rows[i] \in 1..Completed
        /\ \A km \in 1..Completed :
               InBucket(km) <=> \E i \in 1..Len(km_rows) : km_rows[i] = km

\* a stream whose second kilometre holds no sample: the table has the first
\* and the third
C21_EmptyBucketLeftOutWitness ==
    /\ kpc = "done"
    /\ Completed = 3
    /\ ~InBucket(2)
    /\ km_rows = <<1, 3>>

----------------------------------------------------------------------------
(* The persisted data of the bot's users: the chat context file of each     *)
(* user, the refresh tokens in the .env file, the store of each user.       *)
(* The Application is built without concurrent_updates, and the handlers    *)
(* call the blocking workflow and file operations directly, so one update   *)
(* is handled to its end before the next one starts: a request is one step. *)
(* A context is the JSON object of the file; a dictionary is a function to  *)
(* strings in which "" stands for a key that is not there.                  *)

MaxOps == 4

HistoryLimit == 50

Users == {"u1", "u2"}

InfoTypes == {"height", "weight", "age", "injuries", "training_plan", "general"}

\* the keys ask_for_personal_info asks for, in its order
Questions == <<"height", "weight", "age", "injuries", "training_plan">>

PrefKeys == {"units"}

NoInfo == [k \in InfoTypes |-> ""]

NoPrefs == [k \in PrefKeys |-> ""]

\* get_user_context of a user without a file
DefaultContext ==
    [preferences |-> NoPrefs, chat_history |-> <<>>, personal_info |-> NoInfo,
     last_updated |-> 0]

\* lst[-n:]
LastN(lst, n) ==
    IF Len(lst) <= n THEN lst ELSE SubSeq(lst, Len(lst) - n + 1, Len(lst))

\* dict.update
DictUpdate(d, e) == [k \in DOMAIN d |-> IF e[k] # "" THEN e[k] ELSE d[k]]

\* an updates dictionary: None for a key it does not have
Updates(chat_history, preferences, personal_info) ==
    [chat_history |-> chat_history, preferences |-> preferences,
     personal_info |-> personal_info]

\* a whole context passed as the updates
AsUpdates(c) ==
    Updates(Some(c.chat_history), Some(c.preferences), Some(c.personal_info))

\* update_user_context: the file after the call, c being the file before it
update_user_context(c, updates, now) ==
    [chat_history |->
         IF updates.chat_history = None THEN c.chat_history
         ELSE LastN(c.chat_history \o updates.chat_history[1], HistoryLimit),
     preferences |->
         IF updates.preferences = None THEN c.preferences
         ELSE DictUpdate(c.preferences, updates.preferences[1]),
     personal_info |->
         IF updates.personal_info = None THEN c.personal_info
         ELSE DictUpdate(c.personal_info, updates.personal_info[1]),
     last_updated |-> now]

add_chat_message(c, message, now) ==
    update_user_context(
        c, Updates(Some(<< [timestamp |-> now, message |-> message] >>), None, None),
        now)

ask_for_personal_info(c) ==
    SelectSeq(Questions, LAMBDA k : c.personal_info[k] = "")

update_personal_info(c, info_type, value, now) ==
    LET current_context == [c EXCEPT !.personal_info[info_type] = value]
    IN  update_user_context(c, AsUpdates(current_context), now)

clear_chat_history(c, now) ==
    update_user_context(c, Updates(Some(<<>>), None, None), now)

\* the lines a user answers the questions with, and the key the keyword
\* table of _handle_personal_info maps each to ("" for none)
InfoLines == {"175cm", "70kg", "30 years", "no injuries", "marathon plan", "blue"}

InfoTypeOf(line) ==
    CASE line = "175cm" -> "height"
      [] line = "70kg" -> "weight"
      [] line = "30 years" -> "age"
      [] line = "no injuries" -> "injuries"
      [] line = "marathon plan" -> "training_plan"
      [] OTHER -> ""

InfoMessages ==
    { <<"175cm", "70kg", "30 years", "no injuries", "marathon plan">>,
      <<"175cm", "70kg", "30 years", "no injuries", "blue">>,
      <<"175cm", "blue", "blue", "blue", "blue">>,
      <<"marathon plan">> }

\* the loop of _handle_personal_info over the lines of the message
RECURSIVE MapLines(_, _, _)
MapLines(c, lines, now) ==
    IF lines = <<>> THEN c
    ELSE LET info_type == InfoTypeOf(Head(lines))
         IN  MapLines(IF info_type = "" THEN c
                      ELSE update_personal_info(c, info_type, Head(lines), now),
                      Tail(lines), now)

\* mutant of update_refresh_token: the file is written with the entry of
\* the one user
update_refresh_token_OwnEntryOnly(file, user_id, new_refresh_token) ==
    [u \in DOMAIN file |-> IF u = user_id THEN new_refresh_token ELSE 0]

\* update_refresh_token: USERS is read from the file, the user's entry is
\* replaced and the whole of USERS is written back
update_refresh_token(file, user_id, new_refresh_token) ==
    [file EXCEPT ![user_id] = new_refresh_token]

Op(op, user, sent) == [op |-> op, user |-> user, sent |-> sent]

InitUsers ==
    /\ chat_contexts = [u \in Users |-> DefaultContext]
    /\ env_file = [u \in Users |-> 0]
    /\ USERS = env_file
    /\ issued = env_file
    /\ user_stores = [u \in Users |-> 0]
    /\ clock = 0
    /\ last_op = Op("start", "", 0)
    /\ RetrievalIdle
    /\ ContextIdle
    /\ LlmIdle
    /\ SyncIdle
    /\ SplitIdle
    /\ BotIdle

\* handle_message answers a message and records it
answer_message ==
    \E u \in Users, message \in {"hello", "compare my last two long runs"} :
        /\ clock < MaxOps
        /\ chat_contexts' =
               [chat_contexts EXCEPT ![u] = add_chat_message(@, message, clock + 1)]
        /\ clock' = clock + 1
        /\ last_op' = Op("add_chat_message", u, 0)
        /\ UNCHANGED <<env_file, USERS, issued, user_stores>>
        /\ UNCHANGED <<retrievalVars, contextVars, llmVars, syncVars, splitVars, botVars>>

\* _handle_personal_info of a message it takes for answers
handle_personal_info ==
    \E u \in Users, lines \in InfoMessages :
        LET questions == ask_for_personal_info(chat_contexts[u])
        IN  /\ clock < MaxOps
            /\ questions # <<>>
            /\ \/ /\ Len(lines) = 1 /\ Len(questions) = 1
                  /\ chat_contexts' =
                         [chat_contexts EXCEPT
                              ![u] = update_personal_info(@, "general", lines[1], clock + 1)]
               \/ /\ ~(Len(lines) = 1 /\ Len(questions) = 1)
                  /\ Len(lines) >= Len(questions)
                  /\ chat_contexts' =
                         [chat_contexts EXCEPT ![u] = MapLines(@, lines, clock + 1)]
            /\ clock' = clock + 1
            /\ last_op' = Op("update_personal_info", u, 0)
            /\ UNCHANGED <<env_file, USERS, issued, user_stores>>
            /\ UNCHANGED <<retrievalVars, contextVars, llmVars, syncVars, splitVars, botVars>>

clear_command ==
    \E u \in Users :
        /\ clock < MaxOps
        /\ chat_contexts' =
               [chat_contexts EXCEPT ![u] = clear_chat_history(@, clock + 1)]
        /\ clock' = clock + 1
        /\ last_op' = Op("clear", u, 0)
        /\ UNCHANGED <<env_file, USERS, issued, user_stores>>
        /\ UNCHANGED <<retrievalVars, contextVars, llmVars, syncVars, splitVars, botVars>>

reset_command ==
    \E u \in Users :
        LET cleared == clear_chat_history(chat_contexts[u], clock + 1)
            current_context ==
                [cleared EXCEPT !.personal_info = NoInfo, !.preferences = NoPrefs]
        IN  /\ clock < MaxOps
            /\ chat_contexts' =
                   [chat_contexts EXCEPT
                        ![u] = update_user_context(cleared, AsUpdates(current_context),
                                                   clock + 1)]
            /\ clock' = clock + 1
            /\ last_op' = Op("reset", u, 0)
            /\ UNCHANGED <<env_file, USERS, issued, user_stores>>
            /\ UNCHANGED <<retrievalVars, contextVars, llmVars, syncVars, splitVars, botVars>>

\* /sync of a user: strava_agent builds the StravaClient with the token of
\* config.USERS, the client's first request refreshes the access token;
\* Strava answers a token that is not the one it last issued with status
\* 400, and the fetch fails; else it issues the same or a new refresh token,
\* which update_refresh_token writes, and the new runs are stored
user_sync ==
    \E u \in Users, rotated \in BOOLEAN :
        LET refresh_token == USERS[u]
            new_refresh_token == IF rotated THEN issued[u] + 1 ELSE issued[u]
        IN  /\ clock < MaxOps
            /\ IF refresh_token = issued[u]
               THEN /\ issued' = [issued EXCEPT ![u] = new_refresh_token]
                    /\ env_file' = update_refresh_token(env_file, u, new_refresh_token)
                    /\ user_stores' = [user_stores EXCEPT ![u] = @ + 1]
               ELSE UNCHANGED <<issued, env_file, user_stores>>
            /\ clock' = clock + 1
            /\ last_op' = Op("sync", u, refresh_token)
            /\ UNCHANGED <<chat_contexts, USERS>>
            /\ UNCHANGED <<retrievalVars, contextVars, llmVars, syncVars, splitVars, botVars>>

\* the process is started again: config reads USERS from the .env file
restart ==
    /\ clock < MaxOps
    /\ USERS # env_file
    /\ USERS' = env_file
    /\ clock' = clock + 1
    /\ last_op' = Op("restart", "", 0)
    /\ UNCHANGED <<chat_contexts, env_file, issued, user_stores>>
    /\ UNCHANGED <<retrievalVars, contextVars, llmVars, syncVars, splitVars, botVars>>

NextUsers ==
    \/ answer_message
    \/ handle_personal_info
    \/ clear_command
    \/ reset_command
    \/ user_sync
    \/ restart

SpecUsers == InitUsers /\ [][NextUsers]_vars

----------------------------------------------------------------------------
(* Properties of the users' persisted data *)

\* what is kept for a user: the store, the chat context, the refresh token
Persisted(u) == <<user_stores[u], chat_contexts[u], env_file[u]>>

\* C22: the requests of different users share no mutable state: a request
\* of one user (sync with token refresh, message, answer, /clear, /reset)
\* leaves the store, the chat context and the saved refresh token of every
\* other user as they were, so in any interleaving each user's persisted
\* data is what that user's own requests make of it.
C22_UsersDoNotInterfere ==
    [][\A u \in Users : last_op'.user # u => Persisted(u)' = Persisted(u)]_vars

\* both users have synced with a rotated token and have chatted
C22_BothUsersActiveWitness ==
    /\ last_op.op = "sync"
    /\ \A u \in Users :
           /\ env_file[u] = 1
           /\ user_stores[u] = 1
           /\ chat_contexts[u].chat_history # <<>>

\* C23: after /clear (clear_chat_history) the user's stored chat_history is
\* empty, whatever was recorded before.
C23_ClearEmptiesHistory ==
    last_op.op = "clear" => chat_contexts[last_op.user].chat_history = <<>>

\* C24: after /reset the user's stored personal_info and preferences are
\* empty, so ask_for_personal_info returns all five questions again.
C24_ResetEmptiesPersonalInfo ==
    last_op.op = "reset" =>
        LET c == chat_contexts[last_op.user]
        IN  /\ c.personal_info = NoInfo
            /\ c.preferences = NoPrefs
            /\ ask_for_personal_info(c) = Questions

NoDuplicates(h) == \A i, j \in 1..Len(h) : i # j => h[i] # h[j]

\* C29: update_personal_info changes personal_info and last_updated only:
\* the chat_history (and the preferences) are after the call what they were
\* before it, and over add_chat_message and update_personal_info calls no
\* recorded chat entry comes to appear in chat_history more than once.
C29_UpdatePersonalInfoKeepsHistory ==
    [][\A u \in Users :
           (clock' # clock /\ last_op'.user = u
            /\ last_op'.op \in {"add_chat_message", "update_personal_info"}) =>
               /\ NoDuplicates(chat_contexts[u].chat_history)
                      => NoDuplicates(chat_contexts'[u].chat_history)
               /\ last_op'.op = "update_personal_info" =>
                      /\ chat_contexts'[u].chat_history = chat_contexts[u].chat_history
                      /\ chat_contexts'[u].preferences = chat_contexts[u].preferences
      ]_vars

\* C30: once Strava has issued a new refresh token to a user, every later
\* refresh request for that user sends the token issued last, also the
\* request of the StravaClient built for a later sync of the same process.
C30_RefreshSendsLatestToken ==
    [][(clock' # clock /\ last_op'.op = "sync") =>
           last_op'.sent = issued[last_op'.user]]_vars

----------------------------------------------------------------------------
(* One update handled by the bot: handle_message for a text that is no      *)
(* command, sync_command for /sync, and the workflow they invoke, node by   *)
(* node.  A text is the sequence of its lines, a line the sequence of its   *)
(* words.  An external call inside a node (the store, Strava, the model)    *)
(* returns or raises; each node catches what is raised in it.               *)

ExemptUser == "1088864531"

UserIds == {"1088864531", "1001", "1002", "1003"}

\* config.USERS: the entry with the chat id, None for no entry
UserConfig(user_id) ==
    CASE user_id = "1088864531" -> Some([chat_id |-> 1088864531, strava_refresh_token |-> Some("t1")])
      [] user_id = "1001" -> Some([chat_id |-> 1001, strava_refresh_token |-> Some("t2")])
      [] user_id = "1003" -> Some([chat_id |-> 1003, strava_refresh_token |-> None])
      [] OTHER -> None

is_user_configured(user_id) ==
    LET user_config == UserConfig(user_id)
    IN  IF user_config = None THEN FALSE
        ELSE user_config[1].strava_refresh_token # None

SyncData == << <<"sync_data">> >>

Texts ==
    { SyncData,
      << <<"hello">> >>,
      << <<"compare", "my", "last", "two", "long", "runs">> >>,
      << <<"how", "was", "my", "running", "this", "week">> >>,
      << <<"175cm">>, <<"70kg">>, <<"30">>, <<"none">>, <<"marathon">> >> }

\* the single words of greeting_patterns and non_fitness_patterns
SimpleWords ==
    {"hi", "hello", "hey", "thanks", "thx", "bye", "goodbye", "yes", "no", "ok",
     "okay", "sure", "weather", "temperature", "rain", "sunny", "time", "date",
     "day", "week", "joke", "funny", "humor", "help", "support", "assist",
     "capabilities", "features"}

\* message.split()
RECURSIVE Split(_)
Split(message) ==
    IF message = <<>> THEN <<>> ELSE Head(message) \o Split(Tail(message))

\* mutant of should_handle_simply: no rule for messages of three words or
\* fewer
should_handle_simply_NoShortRule(message) ==
    \E i \in 1..Len(Split(message)) : Split(message)[i] \in SimpleWords

should_handle_simply(message) ==
    \/ \E i \in 1..Len(Split(message)) : Split(message)[i] \in SimpleWords
    \/ Len(Split(message)) <= 3

\* _handle_personal_info: TRUE when it takes the message for answers;
\* questions is the number of questions ask_for_personal_info returns
HandledAsPersonalInfo(user_id, message, questions) ==
    /\ user_id # ExemptUser
    /\ questions > 0
    /\ \/ Len(message) = 1 /\ questions = 1
       \/ Len(message) >= questions

InitialState(message) ==
    [user_message |-> message, strava_data |-> FALSE, json_list |-> FALSE,
     documents |-> FALSE, query |-> "", coach_response |-> "",
     plot_path |-> FALSE, final_response |-> "", error |-> "",
     skip_to_end |-> FALSE]

NoEffects == [invoked |-> FALSE, model |-> FALSE, fetched |-> FALSE, stored |-> FALSE]

Order ==
    <<"personal_info_checker", "data_availability_check", "strava_agent",
      "document_creator", "document_storage", "query_interpreter",
      "document_retriever", "coach_agent", "plotting_agent", "response_formatter">>

should_skip_to_end(st) == st.skip_to_end

\* mutant of NextNode: coach_agent is followed by response_formatter
NextNode_SkipsPlotting(n, st) ==
    CASE n = "data_availability_check" ->
             IF should_skip_to_end(st) THEN "response_formatter" ELSE "strava_agent"
      [] n = "coach_agent" -> "response_formatter"
      [] n = "response_formatter" -> "END"
      [] OTHER -> Order[(CHOOSE i \in 1..Len(Order) : Order[i] = n) + 1]

\* the edges of the graph
NextNode(n, st) ==
    CASE n = "data_availability_check" ->
             IF should_skip_to_end(st) THEN "response_formatter" ELSE "strava_agent"
      [] n = "response_formatter" -> "END"
      [] OTHER -> Order[(CHOOSE i \in 1..Len(Order) : Order[i] = n) + 1]

\* {**state, "error": ...}
WithError(st, message) == [st EXCEPT !.error = message]

IsSync(st) == st.user_message = SyncData

\* mutant of MessageReply: the final response is sent whatever the error
MessageReply_IgnoresError(result) == "final_response"

\* handle_message after workflow.invoke
MessageReply(result) ==
    IF result.error # "" THEN "error" ELSE "final_response"

\* sync_command after workflow.invoke
SyncReply(result) ==
    IF result.error # "" THEN "sync_error" ELSE "sync_success"

Senders ==
    [user_id : UserIds, questions : {0, 1, 5}, has_data : BOOLEAN]

Incoming(sender, kind, message) ==
    [user_id |-> sender.user_id, questions |-> sender.questions,
     has_data |-> sender.has_data, kind |-> kind, text |-> message]

InitBot ==
    /\ incoming = Incoming([user_id |-> "1001", questions |-> 0, has_data |-> FALSE],
                           "none", <<>>)
    /\ node = "idle"
    /\ wstate = InitialState(<<>>)
    /\ ran = <<>>
    /\ bot_reply = ""
    /\ effects = NoEffects
    /\ RetrievalIdle
    /\ ContextIdle
    /\ LlmIdle
    /\ SyncIdle
    /\ SplitIdle
    /\ UserIdle

Waiting == node \in {"idle", "replied"}

\* the handler answers without the workflow
Answer(sender, kind, message, answer) ==
    /\ incoming' = Incoming(sender, kind, message)
    /\ node' = "replied"
    /\ wstate' = InitialState(<<>>)
    /\ ran' = <<>>
    /\ bot_reply' = answer
    /\ effects' = NoEffects

\* the handler calls workflow.invoke(initial_state)
Invoke(sender, kind, message) ==
    /\ incoming' = Incoming(sender, kind, message)
    /\ node' = "personal_info_checker"
    /\ wstate' = InitialState(message)
    /\ ran' = <<>>
    /\ bot_reply' = ""
    /\ effects' = [NoEffects EXCEPT !.invoked = TRUE]

\* handle_message up to workflow.invoke
handle_message_gate ==
    /\ Waiting
    /\ \E sender \in Senders, message \in Texts :
           IF ~is_user_configured(sender.user_id)
           THEN Answer(sender, "text", message, "not_configured")
           ELSE IF HandledAsPersonalInfo(sender.user_id, message, sender.questions)
           THEN Answer(sender, "text", message, "info_saved")
           ELSE IF sender.questions > 0 /\ sender.user_id # ExemptUser
           THEN Answer(sender, "text", message, "need_info")
           ELSE IF should_handle_simply(message)
           THEN Answer(sender, "text", message, "simple")
           ELSE IF ~sender.has_data
           THEN Answer(sender, "text", message, "no_data")
           ELSE Invoke(sender, "text", message)
    /\ UNCHANGED <<retrievalVars, contextVars, llmVars, syncVars, splitVars, userVars>>

\* sync_command up to workflow.invoke
sync_command_invoke ==
    /\ Waiting
    /\ \E sender \in Senders : Invoke(sender, "sync", SyncData)
    /\ UNCHANGED <<retrievalVars, contextVars, llmVars, syncVars, splitVars, userVars>>

\* one node of the graph: it returns the state st and has the effects eff
RunNode(n, st, eff) ==
    /\ node = n
    /\ wstate' = st
    /\ effects' = eff
    /\ ran' = Append(ran, n)
    /\ node' = NextNode(n, st)
    /\ UNCHANGED <<incoming, bot_reply>>
    /\ UNCHANGED <<retrievalVars, contextVars, llmVars, syncVars, splitVars, userVars>>

personal_info_checker ==
    \E outcome \in {"ok", "raises"} :
        RunNode("personal_info_checker",
                IF outcome = "ok" THEN wstate
                ELSE WithError(wstate, "Personal info checker error"),
                effects)

data_availability_check ==
    \E outcome \in {"ok", "raises"} :
        RunNode("data_availability_check",
                IF IsSync(wstate) THEN wstate
                ELSE IF outcome = "raises"
                THEN [wstate EXCEPT !.error = "Data availability check error",
                                    !.final_response = "No Strava data found",
                                    !.skip_to_end = TRUE]
                ELSE IF ~incoming.has_data
                THEN [wstate EXCEPT !.error = "No Strava data found",
                                    !.final_response = "No Strava data found",
                                    !.skip_to_end = TRUE]
                ELSE wstate,
                effects)

strava_agent_node ==
    \E outcome \in {"raises", "fetch_raises", "new_runs", "not_converted", "no_new_runs"} :
        LET user_config == UserConfig(incoming.user_id)
            fetches == /\ IsSync(wstate)
                       /\ user_config # None
                       /\ user_config[1].strava_refresh_token # None
                       /\ outcome # "raises"
        IN  RunNode("strava_agent",
                    IF ~IsSync(wstate)
                    THEN [wstate EXCEPT !.strava_data = FALSE, !.json_list = FALSE]
                    ELSE IF user_config = None
                    THEN WithError(wstate, "No user found")
                    ELSE IF user_config[1].strava_refresh_token = None
                    THEN WithError(wstate, "No Strava refresh token found")
                    ELSE CASE outcome = "raises" -> WithError(wstate, "Strava agent error")
                           [] outcome = "fetch_raises" ->
                                  [wstate EXCEPT !.strava_data = FALSE, !.json_list = FALSE,
                                                 !.error = "Failed to fetch Strava data"]
                           [] outcome = "new_runs" ->
                                  [wstate EXCEPT !.strava_data = TRUE, !.json_list = TRUE]
                           [] outcome = "not_converted" ->
                                  [wstate EXCEPT !.strava_data = TRUE, !.json_list = FALSE]
                           [] OTHER ->
                                  [wstate EXCEPT !.strava_data = FALSE, !.json_list = FALSE],
                    [effects EXCEPT !.fetched = @ \/ fetches])

document_creator ==
    \E outcome \in {"ok", "raises"} :
        LET creates == IsSync(wstate) /\ wstate.json_list
        IN  RunNode("document_creator",
                    IF ~creates THEN [wstate EXCEPT !.documents = FALSE]
                    ELSE IF outcome = "ok" THEN [wstate EXCEPT !.documents = TRUE]
                    ELSE WithError(wstate, "Document creator error"),
                    [effects EXCEPT !.model = @ \/ creates])

document_storage ==
    \E outcome \in {"ok", "raises"} :
        LET stores == IsSync(wstate) /\ wstate.documents
        IN  RunNode("document_storage",
                    IF ~stores \/ outcome = "ok" THEN wstate
                    ELSE WithError(wstate, "Document storage error"),
                    [effects EXCEPT !.stored = @ \/ (stores /\ outcome = "ok")])

query_interpreter ==
    \E outcome \in {"ok", "raises"} :
        RunNode("query_interpreter",
                IF IsSync(wstate) THEN [wstate EXCEPT !.query = "sync"]
                ELSE IF outcome = "ok" THEN [wstate EXCEPT !.query = "query"]
                ELSE WithError(wstate, "Query interpreter error"),
                [effects EXCEPT !.model = @ \/ ~IsSync(wstate)])

document_retriever ==
    \E outcome \in {"ok", "raises"} :
        RunNode("document_retriever",
                IF wstate.query = "sync" \/ outcome = "ok" THEN wstate
                ELSE WithError(wstate, "Document retriever error"),
                effects)

coach_agent ==
    \E outcome \in {"ok", "raises"} :
        RunNode("coach_agent",
                IF wstate.query = "sync"
                THEN [wstate EXCEPT !.coach_response = "Data sync completed successfully!"]
                ELSE IF outcome = "ok" THEN [wstate EXCEPT !.coach_response = "coaching"]
                ELSE WithError(wstate, "Coach agent error"),
                [effects EXCEPT !.model = @ \/ wstate.query # "sync"])

plotting_agent ==
    \E outcome \in {"plot", "no_plot", "raises"} :
        RunNode("plotting_agent",
                IF wstate.query = "sync" \/ outcome = "no_plot"
                THEN [wstate EXCEPT !.plot_path = FALSE]
                ELSE IF outcome = "plot" THEN [wstate EXCEPT !.plot_path = TRUE]
                ELSE WithError(wstate, "Plotting agent error"),
                effects)

response_formatter ==
    \E outcome \in {"ok", "raises"} :
        RunNode("response_formatter",
                IF outcome = "ok" THEN [wstate EXCEPT !.final_response = "formatted"]
                ELSE WithError(wstate, "Response formatter error"),
                effects)

\* handle_message after workflow.invoke has returned
handle_message_reply ==
    /\ node = "END" /\ incoming.kind = "text"
    /\ bot_reply' = MessageReply(wstate)
    /\ node' = "replied"
    /\ UNCHANGED <<incoming, wstate, ran, effects>>
    /\ UNCHANGED <<retrievalVars, contextVars, llmVars, syncVars, splitVars, userVars>>

\* sync_command after workflow.invoke has returned
sync_command_reply ==
    /\ node = "END" /\ incoming.kind = "sync"
    /\ bot_reply' = SyncReply(wstate)
    /\ node' = "replied"
    /\ UNCHANGED <<incoming, wstate, ran, effects>>
    /\ UNCHANGED <<retrievalVars, contextVars, llmVars, syncVars, splitVars, userVars>>

NextBot ==
    \/ handle_message_gate
    \/ sync_command_invoke
    \/ personal_info_checker
    \/ data_availability_check
    \/ strava_agent_node
    \/ document_creator
    \/ document_storage
    \/ query_interpreter
    \/ document_retriever
    \/ coach_agent
    \/ plotting_agent
    \/ response_formatter
    \/ handle_message_reply
    \/ sync_command_reply

SpecBot == InitBot /\ [][NextBot]_vars

\* workflow.invoke runs the nodes one after the other until END, and the
\* handler then replies: a step that can be taken is taken
SpecBotLive == SpecBot /\ WF_vars(NextBot)

----------------------------------------------------------------------------
(* Properties of a handled update *)

WorkflowNodes == { Order[i] : i \in 1..Len(Order) }

ErrorReplies == {"error", "sync_error"}

\* C25: once a node has set a non-empty error no later node of the
\* invocation makes it empty again, and the reply of the handler is then an
\* error message, never the coach's response or a success message.
C25_ErrorKeptAndReplied ==
    [][(node \in WorkflowNodes \cup {"END"} /\ wstate.error # "") =>
           /\ wstate'.error # ""
           /\ node' = "replied" => bot_reply' \in ErrorReplies]_vars

\* the coach answered, the plot failed, the user got the error
C25_ErrorAfterCoachingWitness ==
    /\ node = "replied"
    /\ wstate.coach_response = "coaching"
    /\ wstate.error = "Plotting agent error"
    /\ bot_reply = "error"

IsPrefix(s, t) == Len(s) <= Len(t) /\ SubSeq(t, 1, Len(s)) = s

SkipPath == <<"personal_info_checker", "data_availability_check", "response_formatter">>

RanInOrder ==
    \/ IsPrefix(ran, Order)
    \/ ran = SkipPath /\ wstate.skip_to_end

EndedAfterFormatter ==
    (node \in {"END", "replied"} /\ effects.invoked) =>
        \/ ran = Order
        \/ ran = SkipPath /\ wstate.skip_to_end

\* C26: external calls returning or raising, every invocation of the
\* workflow reaches END; the nodes run at most once each, in the fixed order
\* personal_info_checker, data_availability_check, strava_agent,
\* document_creator, document_storage, query_interpreter,
\* document_retriever, coach_agent, plotting_agent, response_formatter, the
\* one jump being skip_to_end from data_availability_check to
\* response_formatter; response_formatter runs exactly once, and what a node
\* raises does not leave the workflow.
C26_WorkflowRunsInOrderToEnd ==
    /\ []RanInOrder
    /\ []EndedAfterFormatter
    /\ (node = "personal_info_checker") ~> (node = "END")

\* all ten nodes ran and the invocation ended, a node having raised
C26_EndedAfterNodeRaisedWitness ==
    /\ node = "END"
    /\ ran = Order
    /\ wstate.error # ""

\* C27: no text message that is no command causes ingestion: whatever the
\* text, handle_message leads to no Strava fetch and to no document being
\* added to a store (the fetch, create and store nodes act for "sync_data"
\* only, and the text "sync_data" is answered by the simple agent).
C27_TextNeverIngests ==
    incoming.kind = "text" => ~effects.fetched /\ ~effects.stored

\* a question went through the ingestion nodes
C27_QuestionPassedIngestionNodesWitness ==
    /\ incoming.kind = "text"
    /\ node = "END"
    /\ ran = Order

\* C28: handle_message invokes the workflow only for a user who is
\* configured and has no personal-information question outstanding,
\* whatever the user id.
C28_WorkflowOnlyBehindGate ==
    (incoming.kind = "text" /\ effects.invoked) =>
        /\ is_user_configured(incoming.user_id)
        /\ incoming.questions = 0

====
